---------------------------- MODULE Spec2Model ----------------------------
(***************************************************************************)
(* Model of the ZeroBootloader firmware loader: the line/binary protocol   *)
(* state machine (protocol.c, kept in src/minimal_libc.c), the flash       *)
(* engine (flash_ops.c), the CDC device of usb_stubs.c and the boot        *)
(* decision of main.c.                                                     *)
(*                                                                         *)
(* Text is modelled as sequences of character codes (ASCII), so that the   *)
(* C string routines can be modelled by what they do.  All uint32_t        *)
(* arithmetic is taken modulo 2^32.                                        *)
(***************************************************************************)
EXTENDS Integers, Sequences, FiniteSets, TLC

(***************************************************************************)
(* Program constants                                                       *)
(***************************************************************************)
FLASH_SIZE == 262144                      \* 256UL * 1024UL
FLASH_PAGE_SIZE == 64
FLASH_ROW_SIZE == FLASH_PAGE_SIZE * 4
APP_VALID_MAGIC == 1437209584             \* 0x55AA13F0
APP_START_ADDRESS == 8192                 \* 0x00002000
CMD_BUF_SIZE == 128
BOOT_VERSION_MAJOR == 1
BOOT_VERSION_MINOR == 0
CDC_DATA_EP_SIZE == 64
CDC_RX_BUFFER_SIZE == 512
CDC_RX_BUFFER_MASK == CDC_RX_BUFFER_SIZE - 1
USB_REQ_SET_ADDRESS == 5
USB_REQ_GET_DESCRIPTOR == 6
USB_REQ_GET_CONFIGURATION == 8
USB_REQ_SET_CONFIGURATION == 9
USB_REQ_GET_INTERFACE == 10
USB_REQ_SET_INTERFACE == 11
USB_REQ_GET_STATUS == 0
CDC_REQ_SET_LINE_CODING == 32             \* 0x20
CDC_REQ_GET_LINE_CODING == 33
CDC_REQ_SET_CONTROL_LINE_STATE == 34
REQTYPE_TYPE_MASK == 96                   \* 0x60
REQTYPE_TYPE_STANDARD == 0
REQTYPE_TYPE_CLASS == 32
REQTYPE_RECIPIENT_MASK == 31              \* 0x1F
REQTYPE_RECIPIENT_INTERFACE == 1

(***************************************************************************)
(* Bounds of the model                                                     *)
(***************************************************************************)
MaxSends == 3          \* lines the host sends and resets it causes in a run
FloodPackets == 9      \* full packets the USB host sends in a row

(***************************************************************************)
(* Machine arithmetic.  A uint32_t value v is held as the integer v when   *)
(* v < 2^31 and as v - 2^32 otherwise (its two's complement reading), and  *)
(* every operation works on its 16-bit halves, so that no intermediate     *)
(* value leaves the 32-bit integers of the model checker.  0xFFFFFFFF is   *)
(* therefore written -1.  Comparisons of uint32_t values use Ult and Ule.  *)
(***************************************************************************)
Hi(x) == (x \div 65536) % 65536
Lo(x) == x % 65536
Mk(hi, lo) == IF hi < 32768 THEN hi * 65536 + lo ELSE (hi - 65536) * 65536 + lo

\* a + b as uint32_t, and the carry out of bit 31
Carry32(a, b) == (Hi(a) + Hi(b) + ((Lo(a) + Lo(b)) \div 65536)) \div 65536
Add32(a, b) ==
    Mk((Hi(a) + Hi(b) + ((Lo(a) + Lo(b)) \div 65536)) % 65536, (Lo(a) + Lo(b)) % 65536)

\* a * m + d as uint32_t, for small m and d
MulAdd32(a, m, d) ==
    Mk((Hi(a) * m + ((Lo(a) * m + d) \div 65536)) % 65536, (Lo(a) * m + d) % 65536)

\* (unsigned long)(-(long)a)
Neg32(a) ==
    Mk((65535 - Hi(a) + (IF Lo(a) = 0 THEN 1 ELSE 0)) % 65536, (65536 - Lo(a)) % 65536)

\* unsigned comparison
Ult(a, b) == Hi(a) < Hi(b) \/ (Hi(a) = Hi(b) /\ Lo(a) < Lo(b))
Ule(a, b) == ~Ult(b, a)

RECURSIVE XorBits(_, _, _)
XorBits(a, b, n) ==
    IF n = 0 THEN 0
    ELSE ((a + b) % 2) + 2 * XorBits(a \div 2, b \div 2, n - 1)

Xor32(a, b) == Mk(XorBits(Hi(a), Hi(b), 16), XorBits(Lo(a), Lo(b), 16))

\* a >> 1
Shr1(a) == Mk(Hi(a) \div 2, (Lo(a) \div 2) + (Hi(a) % 2) * 32768)

\* x & ~(m - 1) for a power of two m
AlignDown(x, m) == Mk(Hi(x), Lo(x) - (Lo(x) % m))

Min(a, b) == IF a < b THEN a ELSE b

(***************************************************************************)
(* Character codes and C strings.  A C string is the part of a character   *)
(* array before its first NUL.                                             *)
(***************************************************************************)
NUL == <<0>>
SP == <<32>>
LF == <<10>>

\* the number of characters before the first NUL of s
strlen(s) ==
    LET nul == {i \in 1..Len(s) : s[i] = 0}
    IN  IF nul = {} THEN Len(s) ELSE (CHOOSE i \in nul : \A j \in nul : i <= j) - 1

CStr(s) == SubSeq(s, 1, strlen(s))

\* strcmp(a, b) == 0
strcmp0(a, b) == CStr(a) = CStr(b)

\* strncmp(a, b, n) == 0
strncmp0(a, b, n) ==
    LET ca == CStr(a)
        cb == CStr(b)
    IN  SubSeq(ca, 1, Min(n, Len(ca))) = SubSeq(cb, 1, Min(n, Len(cb)))

\* The i-th character of the C string s (1-based), NUL at and past its end.
ChAt(s, i) == IF i >= 1 /\ i <= Len(s) THEN s[i] ELSE 0

is_delim(c, delim) == \E i \in 1..Len(delim) : delim[i] = c

(***************************************************************************)
(* strtok: tokens of the C string s split on the characters of delim, in   *)
(* order, as successive calls strtok(s, d), strtok(NULL, d), ... return    *)
(* them; after the last token every further call returns NULL.             *)
(***************************************************************************)
RECURSIVE SkipDelims(_, _, _)
SkipDelims(s, i, delim) ==
    IF i <= Len(s) /\ is_delim(s[i], delim)
    THEN SkipDelims(s, i + 1, delim) ELSE i

RECURSIVE SkipToken(_, _, _)
SkipToken(s, i, delim) ==
    IF i <= Len(s) /\ ~is_delim(s[i], delim)
    THEN SkipToken(s, i + 1, delim) ELSE i

RECURSIVE strtok(_, _, _)
strtok(s, save, delim) ==
    LET start == SkipDelims(s, save, delim)
        stop  == SkipToken(s, start, delim)
    IN  IF start > Len(s) THEN <<>>
        ELSE <<SubSeq(s, start, stop - 1)>> \o strtok(s, stop + 1, delim)

(***************************************************************************)
(* strtoul(nptr, &endp, base): the value, and the number of characters     *)
(* consumed (endp - nptr).  unsigned long is 32 bits wide on the target.   *)
(***************************************************************************)
IsSpace(c) == c \in {32, 9, 13, 10, 12, 11}

RECURSIVE SkipSpace(_, _)
SkipSpace(s, i) == IF IsSpace(ChAt(s, i)) THEN SkipSpace(s, i + 1) ELSE i

DigitOf(c) ==
    IF c >= 48 /\ c <= 57 THEN c - 48
    ELSE IF c >= 97 /\ c <= 102 THEN c - 97 + 10
    ELSE IF c >= 65 /\ c <= 70 THEN c - 65 + 10
    ELSE -1

RECURSIVE Digits(_, _, _, _)
Digits(s, i, base, result) ==
    LET d == DigitOf(ChAt(s, i))
    IN  IF d < 0 \/ d >= base THEN [value |-> result, end |-> i]
        ELSE Digits(s, i + 1, base, MulAdd32(result, base, d))

strtoul(nptr, base) ==
    LET s   == CStr(nptr)
        p0  == SkipSpace(s, 1)
        neg == ChAt(s, p0) = 45
        p1  == IF ChAt(s, p0) \in {43, 45} THEN p0 + 1 ELSE p0
        hex == ChAt(s, p1) = 48 /\ ChAt(s, p1 + 1) \in {120, 88}
        b   == IF base = 0
               THEN (IF hex THEN 16 ELSE IF ChAt(s, p1) = 48 THEN 8 ELSE 10)
               ELSE base
        p2  == IF base = 0
               THEN (IF hex THEN p1 + 2 ELSE IF ChAt(s, p1) = 48 THEN p1 + 1 ELSE p1)
               ELSE IF base = 16 /\ hex THEN p1 + 2 ELSE p1
        r   == Digits(s, p2, b, 0)
    IN  [value |-> IF neg THEN Neg32(r.value) ELSE r.value,
         endp  |-> r.end - 1]

(***************************************************************************)
(* CRC-32                                                                  *)
(***************************************************************************)
RECURSIVE CrcShift(_, _)
CrcShift(crc, i) ==
    IF i = 0 THEN crc
    ELSE CrcShift(IF Lo(crc) % 2 = 1
                  THEN Xor32(Shr1(crc), Mk(60856, 33568))      \* 0xEDB88320
                  ELSE Shr1(crc),
                  i - 1)

\* a variant of crc32_update that folds the byte in after the eight shifts
Crc32UpdateXorLast(crc, data) == Xor32(CrcShift(crc, 8), data)

crc32_update(crc, data) == CrcShift(Xor32(crc, data), 8)

\* a variant of crc32_finalize without the final xor
Crc32FinalizeNone(crc) == crc

crc32_finalize(crc) == Xor32(crc, -1)                  \* 0xFFFFFFFF

(***************************************************************************)
(* Flash.  The flash array is held as its content at power-on (base),      *)
(* the rows erased since and the bytes programmed since the last erase of  *)
(* their row (mem, a function from addresses to bytes).  The write-page    *)
(* command is modelled as committing the 64 staged bytes at                *)
(* [addr, addr + 64); addresses are uint32_t values and wrap.              *)
(***************************************************************************)
MarkerAddr == APP_START_ADDRESS - 4

\* little-endian bytes of a 32-bit word
WordBytes(w) == <<Lo(w) % 256, Lo(w) \div 256, Hi(w) % 256, Hi(w) \div 256>>

InAppRegion(a) == Ule(APP_START_ADDRESS, a) /\ Ult(a, FLASH_SIZE)

\* The content of the flash at power-on: a device that left the factory
\* blank, or one that holds an installed image and its validity marker.
BaseByte(base, a) ==
    IF Ult(a, MarkerAddr) THEN (Lo(a) * 7 + 1) % 255                \* loader code
    ELSE IF Ult(a, APP_START_ADDRESS)
         THEN (IF base = "image" THEN WordBytes(APP_VALID_MAGIC)[a - MarkerAddr + 1] ELSE 255)
    ELSE IF Ult(a, FLASH_SIZE)
         THEN (IF base = "image" THEN Lo(a) % 251 ELSE 255)
    ELSE 0

ReadByte(fl, a) ==
    IF a \in DOMAIN fl.mem THEN fl.mem[a]
    ELSE IF AlignDown(a, FLASH_ROW_SIZE) \in fl.erased THEN 255
    ELSE BaseByte(fl.base, a)

ReadWord(fl, a) ==
    Mk(ReadByte(fl, Add32(a, 2)) + 256 * ReadByte(fl, Add32(a, 3)),
       ReadByte(fl, a) + 256 * ReadByte(fl, Add32(a, 1)))

\* NVMCTRL row erase (ER) of the rows in the set rows
EraseRows(fl, rows) ==
    [fl EXCEPT !.erased = @ \cup rows,
               !.mem = [a \in {x \in DOMAIN @ : AlignDown(x, FLASH_ROW_SIZE) \notin rows} |-> @[a]]]

\* NVMCTRL page write (WP) of one staged page at addr
ProgramPage(fl, w) ==
    [fl EXCEPT !.mem = [a \in DOMAIN @ \cup {Add32(w.addr, i) : i \in 0..(FLASH_PAGE_SIZE - 1)} |->
                           LET off == Add32(a, Neg32(w.addr))
                           IN  IF Ult(off, FLASH_PAGE_SIZE) THEN w.page[off + 1] ELSE @[a]]]

RECURSIVE ProgramPages(_, _)
ProgramPages(fl, ws) ==
    IF ws = <<>> THEN fl ELSE ProgramPages(ProgramPage(fl, Head(ws)), Tail(ws))

\* a variant of flash_erase_range without the clamp of end_addr to FLASH_SIZE
EraseRangeNoClamp(addr, len) ==
    LET row_addr == AlignDown(addr, FLASH_ROW_SIZE)
        end_addr == Add32(addr, len)
        n        == IF len = 0 \/ ~Ult(row_addr, end_addr) THEN 0
                    ELSE (end_addr - row_addr + FLASH_ROW_SIZE - 1) \div FLASH_ROW_SIZE
    IN  [k \in 1..n |-> row_addr + (k - 1) * FLASH_ROW_SIZE]

\* The row addresses flash_erase_range hands to the ER command, in order.
flash_erase_range(addr, len) ==
    LET row_addr == AlignDown(addr, FLASH_ROW_SIZE)
        sum      == Add32(addr, len)
        end_addr == IF Ult(sum, addr) \/ Ult(FLASH_SIZE, sum) THEN FLASH_SIZE ELSE sum
        n        == IF len = 0 \/ ~Ult(row_addr, end_addr) THEN 0
                    ELSE (end_addr - row_addr + FLASH_ROW_SIZE - 1) \div FLASH_ROW_SIZE
    IN  [k \in 1..n |-> row_addr + (k - 1) * FLASH_ROW_SIZE]

SeqRange(q) == {q[i] : i \in 1..Len(q)}

\* a variant of flash_erase_application that starts one row late
EraseAppFromSecondRow ==
    UNION {SeqRange(flash_erase_range(APP_START_ADDRESS + k * FLASH_ROW_SIZE, FLASH_ROW_SIZE)) :
             k \in 1..(((FLASH_SIZE - APP_START_ADDRESS + FLASH_ROW_SIZE - 1) \div FLASH_ROW_SIZE) - 1)}

\* The rows flash_erase_application erases: one flash_erase_range call per
\* row address from APP_START_ADDRESS while it is below FLASH_SIZE.
flash_erase_application ==
    UNION {SeqRange(flash_erase_range(APP_START_ADDRESS + k * FLASH_ROW_SIZE, FLASH_ROW_SIZE)) :
             k \in 0..(((FLASH_SIZE - APP_START_ADDRESS + FLASH_ROW_SIZE - 1) \div FLASH_ROW_SIZE) - 1)}

\* a variant of flash_write without the memset of the staged page: what
\* follows the chunk in the caller's buffer is staged with it
FlashWriteNoFill(addr, data, len) ==
    IF len = 0 THEN <<>>
    ELSE <<[addr |-> addr, n |-> Min(len, FLASH_PAGE_SIZE),
            page |-> [i \in 1..FLASH_PAGE_SIZE |-> IF i <= Len(data) THEN data[i] ELSE 255]]>>

\* The page writes flash_write issues: the address of each, its staged
\* page (the chunk, padded with 0xFF) and the length of the chunk.
RECURSIVE flash_write(_, _, _)
flash_write(addr, data, len) ==
    IF len = 0 THEN <<>>
    ELSE LET chunk == Min(len, FLASH_PAGE_SIZE)
         IN  <<[addr |-> addr, n |-> chunk,
                page |-> [i \in 1..FLASH_PAGE_SIZE |-> IF i <= chunk THEN data[i] ELSE 255]]>>
             \o flash_write(Add32(addr, FLASH_PAGE_SIZE),
                            SubSeq(data, chunk + 1, Len(data)), len - chunk)

flash_set_app_valid_flag ==
    LET flag_addr == APP_START_ADDRESS - 4
        page_addr == AlignDown(flag_addr, FLASH_PAGE_SIZE)
        offset    == flag_addr - page_addr
        magic     == WordBytes(APP_VALID_MAGIC)
    IN  flash_write(page_addr,
                    [i \in 1..FLASH_PAGE_SIZE |->
                        IF i > offset /\ i <= offset + 4 THEN magic[i - offset] ELSE 255],
                    FLASH_PAGE_SIZE)

(***************************************************************************)
(* Field arithmetic of crypto_ops.c.  A uint64_t value is held as its five *)
(* digits to the base 2^13, least significant first (the fifth digit has   *)
(* 12 bits), a fe_u128 value as its ten digits (the tenth has 11 bits): no *)
(* product of two digits and no sum of 25 of them leaves the integers of   *)
(* the model checker.  A fe51 is the tuple of its five limbs.  Operators   *)
(* bind the values of their arguments (CHOOSE over a one-element set), so  *)
(* that each is computed once.                                             *)
(***************************************************************************)
RADIX == 8192

\* the digits of the column sums c[i], c[i + 1], .. with carry added to c[i]
RECURSIVE Carried(_, _, _)
Carried(c, i, carry) ==
    IF i > Len(c) THEN <<>>
    ELSE CHOOSE r \in {<<s % RADIX>> \o Carried(c, i + 1, s \div RADIX) : s \in {c[i] + carry}} : TRUE

\* the value of five column sums, modulo 2^64
U64(c0) ==
    CHOOSE r \in {<<d[1], d[2], d[3], d[4], d[5] % 4096>> :
                    d \in {Carried(c, 1, 0) : c \in {c0}}} : TRUE

\* the value of ten column sums, modulo 2^128
U128(c0) ==
    CHOOSE r \in {<<d[1], d[2], d[3], d[4], d[5], d[6], d[7], d[8], d[9], d[10] % 2048>> :
                    d \in {Carried(c, 1, 0) : c \in {c0}}} : TRUE

\* a + b in uint64_t
Add64(a0, b0) ==
    CHOOSE r \in {U64(<<a[1] + b[1], a[2] + b[2], a[3] + b[3], a[4] + b[4], a[5] + b[5]>>) :
                    a \in {a0}, b \in {b0}} : TRUE

\* a + p - b in uint64_t: a + p + ~b + 1
AddSub64(a0, p0, b0) ==
    CHOOSE r \in {U64(<<a[1] + p[1] + (RADIX - 1 - b[1]) + 1, a[2] + p[2] + (RADIX - 1 - b[2]),
                        a[3] + p[3] + (RADIX - 1 - b[3]), a[4] + p[4] + (RADIX - 1 - b[4]),
                        a[5] + p[5] + (4095 - b[5])>>) :
                    a \in {a0}, p \in {p0}, b \in {b0}} : TRUE

\* a * m in uint64_t, for m < 2^17
MulSmall64(a0, m) ==
    CHOOSE r \in {U64(<<a[1] * m, a[2] * m, a[3] * m, a[4] * m, a[5] * m>>) : a \in {a0}} : TRUE

\* a >> 51 and a & FE51_MASK in uint64_t
Shr51(a0) == CHOOSE r \in {<<(a[4] \div 4096) + 2 * a[5], 0, 0, 0, 0>> : a \in {a0}} : TRUE
And51(a0) == CHOOSE r \in {<<a[1], a[2], a[3], a[4] % 4096, 0>> : a \in {a0}} : TRUE

\* fe_u128_add_u64(t, c)
fe_u128_add_u64(t0, c0) ==
    CHOOSE r \in {U128(<<t[1] + c[1], t[2] + c[2], t[3] + c[3], t[4] + c[4], t[5] + c[5],
                         t[6], t[7], t[8], t[9], t[10]>>) : t \in {t0}, c \in {c0}} : TRUE

\* fe_u128_shr_u64(t, 51): (uint64_t)(t >> 51)
fe_u128_shr_u64(t0) ==
    CHOOSE r \in {<<(t[4] \div 4096) + 2 * (t[5] % 4096), (t[5] \div 4096) + 2 * (t[6] % 4096),
                    (t[6] \div 4096) + 2 * (t[7] % 4096), (t[7] \div 4096) + 2 * (t[8] % 4096),
                    ((t[8] \div 4096) + 2 * (t[9] % 4096)) % 4096>> : t \in {t0}} : TRUE

\* fe_u128_lo(t) & FE51_MASK
Lo51(t0) == CHOOSE r \in {<<t[1], t[2], t[3], t[4] % 4096, 0>> : t \in {t0}} : TRUE

\* column k of the product of the uint64_t values x and y
RECURSIVE Dot(_, _, _, _)
Dot(x, y, k, p) ==
    IF p > 5 \/ p > k THEN 0
    ELSE (IF k + 1 - p <= 5 THEN x[p] * y[k + 1 - p] ELSE 0) + Dot(x, y, k, p + 1)

\* column k of the sum of fe_u128_mul64(a[P[n][1]], b[P[n][2]]) over n
RECURSIVE PairCol(_, _, _, _, _)
PairCol(a, b, P, k, n) ==
    IF n > Len(P) THEN 0
    ELSE Dot(a[P[n][1]], b[P[n][2]], k, 1) + PairCol(a, b, P, k, n + 1)

\* fe_u128_mul64 and fe_u128_add over the pairs of P
SumProducts(a, b, P) ==
    U128(<<PairCol(a, b, P, 1, 1), PairCol(a, b, P, 2, 1), PairCol(a, b, P, 3, 1),
           PairCol(a, b, P, 4, 1), PairCol(a, b, P, 5, 1), PairCol(a, b, P, 6, 1),
           PairCol(a, b, P, 7, 1), PairCol(a, b, P, 8, 1), PairCol(a, b, P, 9, 1), 0>>)

\* one step of the carry chain of fe51_reduce: c = v[i] >> 51; v[i] &= FE51_MASK; v[j] += c * m
CarryLimb(v0, i, j, m) ==
    CHOOSE r \in {[v EXCEPT ![i] = And51(@), ![j] = Add64(@, MulSmall64(Shr51(v[i]), m))] :
                    v \in {v0}} : TRUE

fe51_reduce(r) ==
    CHOOSE w \in {[v EXCEPT ![2] = And51(@)] :
                    v \in {CarryLimb(CarryLimb(CarryLimb(CarryLimb(CarryLimb(CarryLimb(r, 1, 2, 1),
                               2, 3, 1), 3, 4, 1), 4, 5, 1), 5, 1, 19), 1, 2, 1)}} : TRUE

\* bits first .. first + n - 1 of the little-endian number in the bytes s
RECURSIVE LoadBits(_, _, _)
LoadBits(s, first, n) ==
    IF n = 0 THEN 0
    ELSE ((s[(first \div 8) + 1] \div (2 ^ (first % 8))) % 2) + 2 * LoadBits(s, first + 1, n - 1)

\* the 51 bits from bit first on, as a uint64_t
Load51(s, first) ==
    <<LoadBits(s, first, 13), LoadBits(s, first + 13, 13), LoadBits(s, first + 26, 13),
      LoadBits(s, first + 39, 12), 0>>

\* v[0] = load64_le(s) & MASK; v[1] = (load64_le(s + 6) >> 3) & MASK; v[2] = (load64_le(s + 12)
\* >> 6) & MASK; v[3] = (load64_le(s + 19) >> 1) & MASK; v[4] = (load64_le(s + 24) >> 12) & MASK
fe51_frombytes(s0) ==
    CHOOSE r \in {<<Load51(s, 0), Load51(s, 6 * 8 + 3), Load51(s, 12 * 8 + 6),
                    Load51(s, 19 * 8 + 1), Load51(s, 24 * 8 + 12)>> : s \in {s0}} : TRUE

fe51_add(a0, b0) ==
    CHOOSE r \in {<<Add64(a[1], b[1]), Add64(a[2], b[2]), Add64(a[3], b[3]), Add64(a[4], b[4]),
                    Add64(a[5], b[5])>> : a \in {a0}, b \in {b0}} : TRUE

FE51_2P ==
    <<<<8154, 8191, 8191, 8191, 0>>,   \* 4503599627370458
      <<8190, 8191, 8191, 8191, 0>>,   \* 4503599627370494
      <<8190, 8191, 8191, 8191, 0>>,   \* 4503599627370494
      <<8190, 8191, 8191, 8191, 0>>,   \* 4503599627370494
      <<8190, 8191, 8191, 8191, 0>>>>   \* 4503599627370494

fe51_sub(a0, b0) ==
    CHOOSE r \in {fe51_reduce(<<AddSub64(a[1], FE51_2P[1], b[1]), AddSub64(a[2], FE51_2P[2], b[2]),
                                AddSub64(a[3], FE51_2P[3], b[3]), AddSub64(a[4], FE51_2P[4], b[4]),
                                AddSub64(a[5], FE51_2P[5], b[5])>>) : a \in {a0}, b \in {b0}} : TRUE

Zero64 == <<0, 0, 0, 0, 0>>

fe51_neg(a0) == fe51_sub(<<Zero64, Zero64, Zero64, Zero64, Zero64>>, a0)

\* the pairs (i, j) of the products a[i] * b[j] summed in t0 .. t4, where
\* a[6 .. 9] are a1_19 .. a4_19
MulPairs ==
    <<<<<<1, 1>>, <<6, 5>>, <<7, 4>>, <<8, 3>>, <<9, 2>>>>,
      <<<<1, 2>>, <<2, 1>>, <<7, 5>>, <<8, 4>>, <<9, 3>>>>,
      <<<<1, 3>>, <<2, 2>>, <<3, 1>>, <<8, 5>>, <<9, 4>>>>,
      <<<<1, 4>>, <<2, 3>>, <<3, 2>>, <<4, 1>>, <<9, 5>>>>,
      <<<<1, 5>>, <<2, 4>>, <<3, 3>>, <<4, 2>>, <<5, 1>>>>>>

\* the carry chain that ends fe51_mul, before its fe51_reduce
MulCarry(t) ==
    LET u1 == fe_u128_add_u64(t[2], fe_u128_shr_u64(t[1]))
        u2 == fe_u128_add_u64(t[3], fe_u128_shr_u64(u1))
        u3 == fe_u128_add_u64(t[4], fe_u128_shr_u64(u2))
        u4 == fe_u128_add_u64(t[5], fe_u128_shr_u64(u3))
    IN  <<Add64(Lo51(t[1]), MulSmall64(fe_u128_shr_u64(u4), 19)), Lo51(u1), Lo51(u2), Lo51(u3),
          Lo51(u4)>>

fe51_mul(a0, b0) ==
    CHOOSE r \in
        {fe51_reduce(MulCarry(t)) :
            t \in {<<SumProducts(x, b, MulPairs[1]), SumProducts(x, b, MulPairs[2]),
                     SumProducts(x, b, MulPairs[3]), SumProducts(x, b, MulPairs[4]),
                     SumProducts(x, b, MulPairs[5])>> :
                   x \in {<<a[1], a[2], a[3], a[4], a[5], MulSmall64(a[2], 19), MulSmall64(a[3], 19),
                            MulSmall64(a[4], 19), MulSmall64(a[5], 19)>> : a \in {a0}},
                   b \in {b0}}} : TRUE

fe51_sq(a) == fe51_mul(a, a)

\* (int)(t.v[0] | t.v[1] | t.v[2] | t.v[3] | t.v[4]) != 0 after fe51_reduce:
\* the conversion to int keeps the low 32 bits
fe51_is_nonzero(a0) ==
    \E t \in {fe51_reduce(a0)} : \E i \in 1..5 : t[i][1] # 0 \/ t[i][2] # 0 \/ t[i][3] % 64 # 0

\* fe51_reduce(a); a->v[0] & 1
fe51_is_negative(a0) == \E t \in {fe51_reduce(a0)} : t[1][1] % 2 = 1

FE51_CONST_ONE ==
    <<<<1, 0, 0, 0, 0>>,   \* 1
      <<0, 0, 0, 0, 0>>,   \* 0
      <<0, 0, 0, 0, 0>>,   \* 0
      <<0, 0, 0, 0, 0>>,   \* 0
      <<0, 0, 0, 0, 0>>>>   \* 0

EDWARDS_D ==
    <<<<6307, 6859, 4740, 1691, 0>>,   \* 929955233495203
      <<3773, 6315, 2574, 848, 0>>,   \* 466365720129213
      <<41, 14, 2200, 3023, 0>>,   \* 1662059464998953
      <<7355, 7425, 4504, 3699, 0>>,   \* 2033849074728123
      <<5887, 5909, 3507, 2624, 0>>>>   \* 1442794654840575

SQRT_M1 ==
    <<<<176, 4213, 2514, 3126, 0>>,   \* 1718705420411056
      <<6301, 1144, 2431, 427, 0>>,   \* 234908883556509
      <<3168, 1512, 6055, 4062, 0>>,   \* 2233514472574048
      <<3230, 5122, 1385, 3851, 0>>,   \* 2117202627021982
      <<7197, 39, 3218, 1392, 0>>>>   \* 765476049583133

\* fe51_sq applied n times
RECURSIVE SqN(_, _)
SqN(a, n) ==
    IF n = 0 THEN a
    ELSE IF n = 1 THEN fe51_sq(a)
    ELSE CHOOSE r \in {SqN(h, n - n \div 2) : h \in {SqN(a, n \div 2)}} : TRUE

\* fe51_pow22523 as the list of its calls over the registers z (1), t0 (2), t1 (3), t2 (4)
\* and r (5): <<"sq", dst, src, n>> is fe51_sq(dst, src) followed by n - 1 times
\* fe51_sq(dst, dst), <<"mul", dst, a, b>> is fe51_mul(dst, a, b)
Pow22523Calls ==
    <<<<"sq", 2, 1, 1>>, <<"sq", 3, 2, 2>>, <<"mul", 3, 1, 3>>, <<"mul", 2, 2, 3>>,
      <<"sq", 4, 2, 1>>, <<"mul", 3, 3, 4>>, <<"sq", 4, 3, 5>>, <<"mul", 3, 4, 3>>,
      <<"sq", 4, 3, 10>>, <<"mul", 4, 4, 3>>, <<"sq", 2, 4, 20>>, <<"mul", 4, 2, 4>>,
      <<"sq", 4, 4, 10>>, <<"mul", 3, 4, 3>>, <<"sq", 4, 3, 50>>, <<"mul", 4, 4, 3>>,
      <<"sq", 2, 4, 100>>, <<"mul", 4, 2, 4>>, <<"sq", 4, 4, 50>>, <<"mul", 3, 4, 3>>,
      <<"sq", 3, 3, 2>>, <<"mul", 5, 3, 2>>>>

\* one call of the list on the registers
FeCall(regs0, call) ==
    CHOOSE r \in {[regs EXCEPT ![call[2]] = IF call[1] = "sq" THEN SqN(regs[call[3]], call[4])
                                             ELSE fe51_mul(regs[call[3]], regs[call[4]])] :
                    regs \in {regs0}} : TRUE

\* the calls i .. j of the list
RECURSIVE FeCalls(_, _, _, _)
FeCalls(regs, calls_, i, j) ==
    IF i > j THEN regs
    ELSE IF i = j THEN FeCall(regs, calls_[i])
    ELSE CHOOSE r \in {FeCalls(h, calls_, ((i + j) \div 2) + 1, j) :
                        h \in {FeCalls(regs, calls_, i, (i + j) \div 2)}} : TRUE

fe51_pow22523(z) ==
    FeCalls(<<z, z, z, z, z>>, Pow22523Calls, 1, Len(Pow22523Calls))[5]

\* ge_frombytes in stages, each adding the values it computes to a record
GeLoad(s0) ==
    CHOOSE r \in {[sign |-> s[32] \div 128, Y |-> fe51_frombytes([s EXCEPT ![32] = @ % 128])] :
                    s \in {s0}} : TRUE

GeUV(p0) ==
    CHOOSE r \in {[sign |-> p.sign, Y |-> p.Y, u |-> fe51_sub(y_sq, FE51_CONST_ONE),
                   v |-> fe51_add(fe51_mul(y_sq, EDWARDS_D), FE51_CONST_ONE)] :
                    p \in {p0}, y_sq \in {fe51_sq(p0.Y)}} : TRUE

GeCube(p0) ==
    CHOOSE r \in {[sign |-> p.sign, Y |-> p.Y, u |-> p.u, v |-> p.v,
                   v_cube |-> fe51_mul(fe51_sq(p.v), p.v)] : p \in {p0}} : TRUE

GeRoot(p0) ==
    CHOOSE r \in {[sign |-> p.sign, Y |-> p.Y, u |-> p.u, v |-> p.v,
                   x |-> fe51_mul(fe51_mul(fe51_pow22523(fe51_mul(p.v_cube, p.u)), p.v_cube), p.u)] :
                    p \in {p0}} : TRUE

\* vx_sq = x^2 * v - u
GeCheck(p, x) == fe51_sub(fe51_mul(fe51_sq(x), p.v), p.u)

\* the two tests of the candidate root, then the choice of its sign
GeTest(p0) ==
    CHOOSE r \in
        {IF ~fe51_is_nonzero(GeCheck(p, p.x)) THEN [ret |-> 0, sign |-> p.sign, Y |-> p.Y, x |-> p.x]
         ELSE CHOOSE q \in {IF fe51_is_nonzero(GeCheck(p, x)) THEN [ret |-> -1]
                            ELSE [ret |-> 0, sign |-> p.sign, Y |-> p.Y, x |-> x] :
                                x \in {fe51_mul(p.x, SQRT_M1)}} : TRUE :
            p \in {p0}} : TRUE

GeSign(p0) ==
    CHOOSE r \in
        {IF p.ret # 0 THEN p
         ELSE CHOOSE q \in {[ret |-> 0, X |-> X, Y |-> p.Y, Z |-> FE51_CONST_ONE,
                             T |-> fe51_mul(X, p.Y)] :
                               X \in {IF fe51_is_negative(x) # (p.sign = 1) THEN fe51_neg(x) ELSE x :
                                        x \in {fe51_reduce(p.x)}}} : TRUE :
            p \in {p0}} : TRUE

ge_frombytes(s) == GeSign(GeTest(GeRoot(GeCube(GeUV(GeLoad(s))))))

(***************************************************************************)
(* sc_check: the 32 bytes of s, least significant first, against the group *)
(* order SC_L.                                                             *)
(***************************************************************************)
SC_L ==
    <<237, 211, 245, 92, 26, 99, 18, 88, 214, 156, 247, 162, 222, 249, 222, 20,
      0, 0, 0, 0, 0, 0, 0, 0, 0, 0, 0, 0, 0, 0, 0, 16>>

\* the loop of sc_check from byte i down to byte 0, with c and gt so far
RECURSIVE ScCheckFrom(_, _, _, _)
ScCheckFrom(s, i, c, gt) ==
    IF i < 0 THEN gt
    ELSE ScCheckFrom(s, i - 1,
                     IF s[i + 1] < SC_L[i + 1] THEN 1 ELSE c,
                     IF s[i + 1] > SC_L[i + 1] /\ c = 0 THEN 1 ELSE gt)

sc_check(s) == ScCheckFrom(s, 31, 0, 0)

(***************************************************************************)
(* crypto_ed25519_verify.                                                  *)
(***************************************************************************)
ZK_PUBKEY ==
    <<234, 77, 133, 50, 219, 143, 197, 112, 232, 163, 198, 217, 76, 143, 65, 41,
      190, 145, 19, 213, 182, 243, 81, 80, 210, 211, 230, 127, 98, 128, 73, 123>>

ED25519_BASEPOINT ==
    <<26, 213, 37, 143, 96, 45, 86, 201, 178, 167, 37, 149, 96, 199, 44, 105,
      92, 220, 214, 253, 49, 226, 164, 192, 254, 83, 110, 205, 211, 54, 105, 33>>

\* crypto_ed25519_verify once both points are decoded: sha512_three, sc_reduce,
\* ge_scalarmult twice, fe51_neg, ge_add, ge_tobytes and crypto_verify_32.  These
\* are not translated and the value is left unspecified: no call gets here, as
\* ge_frombytes returns -1 before (VerifyReturnsAtKey).
GroupEquationHolds(A, B, signature, hash) == CHOOSE b \in {} : TRUE

\* crypto_ed25519_verify from the decoded public key on
VerifyAfterKey(A0, signature, hash) ==
    \E A \in {A0} :
        IF A.ret # 0 THEN FALSE
        ELSE \E B \in {ge_frombytes(ED25519_BASEPOINT)} :
                IF B.ret # 0 THEN FALSE ELSE GroupEquationHolds(A, B, signature, hash)

\* crypto_ed25519_verify with the public key as a parameter
VerifyUnderKey(key, signature, hash) ==
    IF sc_check(SubSeq(signature, 33, 64)) # 0 THEN FALSE
    ELSE VerifyAfterKey(ge_frombytes(key), signature, hash)

crypto_ed25519_verify(signature, hash) == VerifyUnderKey(ZK_PUBKEY, signature, hash)

(***************************************************************************)
(* Image hash and signature.  The SHA-256 context is held as whether its   *)
(* chaining words are those of crypto_sha256_init (iv) and the bytes       *)
(* absorbed since; a digest is the pair of both (no two different inputs   *)
(* share a digest).  ReleaseSignature is the signature the host sends with *)
(* DONE for the release image.                                             *)
(***************************************************************************)
crypto_sha256_init == [iv |-> TRUE, msg |-> <<>>]

crypto_sha256_update(ctx, data) == [ctx EXCEPT !.msg = @ \o data]

\* the digest written by crypto_sha256_final, and the context it leaves
Sha256Digest(ctx) == <<ctx.iv, ctx.msg>>
crypto_sha256_final(ctx) == [iv |-> FALSE, msg |-> <<>>]

ReleaseImage == <<65, 66, 67, 68>>                       \* "ABCD"
\* 64 bytes R || s with s below the group order
ReleaseSignature == [i \in 1..64 |-> IF i = 64 THEN 11 ELSE (i * 37 + 11) % 256]

(***************************************************************************)
(* State                                                                   *)
(***************************************************************************)
VARIABLES
    pc,                 \* "reset" (before main), "loader" (main loop), "app" (jumped)
    parser_state,       \* "WAIT_CMD" or "WRITE_DATA"
    cmd_buffer,         \* cmd_buffer[0 .. cmd_index], the characters and the NUL after them
    cmd_index,
    write_addr, write_length, write_expected_crc, write_received, crc_accum,
    page_buffer,        \* page_buffer[0 .. page_index - 1]
    page_index,
    sha_ctx,
    flash,
    rx,                 \* bytes the CDC layer holds for usb_cdc_getchar
    usb,                \* usb_control_state, the RX ring and the flags of the peripheral
    script,             \* USB host: the bus events it has still to cause, and those it has caused
    \* what the last call of protocol_process_char did, in order
    out,                \* the strings handed to send_str
    nvm_er,             \* the rows handed to the ER command
    nvm_wp,             \* the page writes: [addr, n, page, by]
    calls,              \* the names of the effects, in the order of the calls
    last,               \* the kind of the last step, its byte, and the line dispatched
    \* observers
    wire_line,          \* the characters received in WAIT_CMD since the last LF
    block_payload,      \* the bytes consumed as payload since the last accepted WRITE
    block_length,       \* the length that WRITE line declared
    typed,              \* host: the characters of the line it is sending
    pat,                \* host: the payload pattern of the block it is sending
    sends               \* host: the lines sent and resets caused so far

ram == <<parser_state, cmd_buffer, cmd_index, write_addr, write_length,
         write_expected_crc, write_received, crc_accum, page_buffer, page_index, sha_ctx>>
effects == <<out, nvm_er, nvm_wp, calls, last>>
host == <<typed, pat, sends>>
usbv == <<usb, script>>
vars == <<pc, ram, flash, rx, usbv, effects, wire_line, block_payload, block_length, host>>

(***************************************************************************)
(* Reply strings                                                           *)
(***************************************************************************)
HELLO == <<72, 69, 76, 76, 79>>
ERASE_APP == <<69, 82, 65, 83, 69, 32, 65, 80, 80>>
WRITE_ == <<87, 82, 73, 84, 69, 32>>                      \* "WRITE "
DONE_ == <<68, 79, 78, 69, 32>>                           \* "DONE "
OK_BOOT_v == <<79, 75, 32, 66, 79, 79, 84, 32, 118>>      \* "OK BOOT v"
OK_ERASE == <<79, 75, 32, 69, 82, 65, 83, 69, 10>>
OK_WRITE == <<79, 75, 32, 87, 82, 73, 84, 69, 10>>
OK_DONE == <<79, 75, 32, 68, 79, 78, 69, 10>>
ERR_CRC == <<69, 82, 82, 32, 67, 82, 67, 10>>
ERR_PARAM == <<69, 82, 82, 32, 80, 65, 82, 65, 77, 10>>
ERR_FORMAT == <<69, 82, 82, 32, 70, 79, 82, 77, 65, 84, 10>>
ERR_SIGNATURE == <<69, 82, 82, 32, 83, 73, 71, 78, 65, 84, 85, 82, 69, 10>>
ERR_UNKNOWN == <<69, 82, 82, 32, 85, 78, 75, 78, 79, 87, 78, 10>>

\* the decimal digits append_unsigned writes for value
RECURSIVE append_unsigned(_)
append_unsigned(value) ==
    IF value < 10 THEN <<48 + value>>
    ELSE append_unsigned(value \div 10) \o <<48 + (value % 10)>>

\* a variant of BootReply that leaves the minor version out
BootReplyMajorOnly(major, minor) == OK_BOOT_v \o append_unsigned(major) \o LF

\* snprintf(reply, 32, "OK BOOT v%d.%d\n", major, minor)
BootReply(major, minor) ==
    LET text == OK_BOOT_v \o append_unsigned(major) \o <<46>> \o append_unsigned(minor) \o LF
    IN  SubSeq(text, 1, Min(Len(text), 31))

(***************************************************************************)
(* protocol.c                                                              *)
(***************************************************************************)
protocol_init ==
    /\ parser_state' = "WAIT_CMD"
    /\ cmd_index' = 0
    /\ cmd_buffer' = NUL
    /\ write_addr' = 0
    /\ write_length' = 0
    /\ write_expected_crc' = 0
    /\ write_received' = 0
    /\ crc_accum' = -1                                   \* 0xFFFFFFFF
    /\ page_index' = 0
    /\ page_buffer' = <<>>
    /\ sha_ctx' = crypto_sha256_init

\* The state handle_command reads and writes, and the effects it adds.
Cur ==
    [pc |-> pc, parser_state |-> parser_state, write_addr |-> write_addr,
     write_length |-> write_length, write_expected_crc |-> write_expected_crc,
     write_received |-> write_received, crc_accum |-> crc_accum,
     page_index |-> page_index, sha_ctx |-> sha_ctx, flash |-> flash,
     out |-> <<>>, nvm_er |-> {}, nvm_wp |-> <<>>, calls |-> <<>>]

\* a variant of send_str that loses the text
SendStrLost(st, text) == [st EXCEPT !.calls = Append(@, "send_str")]

send_str(st, text) == [st EXCEPT !.out = Append(@, text), !.calls = Append(@, "send_str")]

\* while (len > 0 && (buf[len-1] == '\r' || buf[len-1] == '\n')) buf[--len] = 0
RECURSIVE TrimEol(_)
TrimEol(s) ==
    IF s # <<>> /\ s[Len(s)] \in {13, 10} THEN TrimEol(SubSeq(s, 1, Len(s) - 1)) ELSE s

\* addr < APP_START_ADDRESS || (addr + length) > FLASH_SIZE
WriteRangeBad(addr, length) ==
    Ult(addr, APP_START_ADDRESS) \/ Ult(FLASH_SIZE, Add32(addr, length))

\* the DONE branch's decoding loop: the 64 bytes, or <<>> when ok is false
DecodeSignature(sig_hex) ==
    LET byte(i) == strtoul(<<sig_hex[2 * i - 1], sig_hex[2 * i]>>, 16)
    IN  IF \A i \in 1..64 : byte(i).endp = 2 /\ Ule(byte(i).value, 255)
        THEN [i \in 1..64 |-> byte(i).value]
        ELSE <<>>

DoneLengthOk(sig_hex_len) == sig_hex_len = 128

handle_command(buffer, st) ==
    LET cmd == TrimEol(CStr(buffer))
    IN  IF strcmp0(cmd, HELLO)
        THEN send_str(st, BootReply(BOOT_VERSION_MAJOR, BOOT_VERSION_MINOR))
        ELSE IF strcmp0(cmd, ERASE_APP)
        THEN send_str([st EXCEPT !.flash = EraseRows(@, flash_erase_application),
                                 !.nvm_er = flash_erase_application,
                                 !.sha_ctx = crypto_sha256_init,
                                 !.calls = @ \o <<"flash_erase_application", "crypto_sha256_init">>],
                      OK_ERASE)
        ELSE IF strncmp0(cmd, WRITE_, 6)
        THEN LET toks == strtok(SubSeq(cmd, 7, Len(cmd)), 1, SP)
             IN  IF Len(toks) < 3 THEN send_str(st, ERR_FORMAT)
                 ELSE LET addr   == strtoul(toks[1], 0).value
                          length == strtoul(toks[2], 0).value
                          crc    == strtoul(toks[3], 0).value
                      IN  IF WriteRangeBad(addr, length) THEN send_str(st, ERR_PARAM)
                          ELSE [st EXCEPT !.write_addr = addr,
                                          !.write_length = length,
                                          !.write_expected_crc = crc,
                                          !.write_received = 0,
                                          !.crc_accum = -1,
                                          !.page_index = 0,
                                          !.parser_state = "WRITE_DATA"]
        ELSE IF strncmp0(cmd, DONE_, 5)
        THEN LET sig_hex == SubSeq(cmd, 6, Len(cmd))
             IN  IF ~DoneLengthOk(Len(sig_hex)) THEN send_str(st, ERR_FORMAT)
                 ELSE LET signature == DecodeSignature(sig_hex)
                      IN  IF signature = <<>> THEN send_str(st, ERR_FORMAT)
                          ELSE LET digest == Sha256Digest(st.sha_ctx)
                                   fin    == [st EXCEPT !.sha_ctx = crypto_sha256_final(@),
                                                        !.calls = Append(@, "crypto_sha256_final")]
                               IN  IF crypto_ed25519_verify(signature, digest)
                                   THEN LET r == send_str([fin EXCEPT !.calls = Append(@, "verify_true")],
                                                          OK_DONE)
                                        IN  [r EXCEPT !.flash = ProgramPages(@, flash_set_app_valid_flag),
                                                      !.nvm_wp = [i \in 1..Len(flash_set_app_valid_flag) |->
                                                                     [addr |-> flash_set_app_valid_flag[i].addr,
                                                                      n |-> flash_set_app_valid_flag[i].n,
                                                                      page |-> flash_set_app_valid_flag[i].page,
                                                                      by |-> "flash_set_app_valid_flag"]],
                                                      !.calls = @ \o <<"flash_set_app_valid_flag",
                                                                       "jump_to_application">>,
                                                      !.pc = "app"]
                                   ELSE send_str([fin EXCEPT !.calls = Append(@, "verify_false")],
                                                 ERR_SIGNATURE)
        ELSE send_str(st, ERR_UNKNOWN)


\* a variant of BlockComplete that is off by one: the block ends a byte early
BlockCompleteEarly(received, length) == Ule(length, Add32(received, 1))

\* a variant of BlockComplete under which no block ends
BlockCompleteNever(received, length) == FALSE

\* write_received >= write_length
BlockComplete(received, length) == Ule(length, received)

\* page_index >= FLASH_PAGE_SIZE
PageFull(index) == index >= FLASH_PAGE_SIZE

\* a variant of CmdHasRoom that fills the buffer to its last byte
CmdHasRoomToTheEnd(index) == index < CMD_BUF_SIZE

\* a variant of CmdHasRoom that keeps one character less
CmdHasRoomShort(index) == index < CMD_BUF_SIZE - 2

\* cmd_index < (CMD_BUF_SIZE - 1)
CmdHasRoom(index) == index < CMD_BUF_SIZE - 1

ByWrite(ws) ==
    [i \in 1..Len(ws) |-> [addr |-> ws[i].addr, n |-> ws[i].n, page |-> ws[i].page, by |-> "write_data"]]

\* a variant of CrcMatches that accepts every block
CrcMatchesAlways(crc_final, expected) == TRUE

\* crc_final == write_expected_crc
CrcMatches(crc_final, expected) == crc_final = expected

\* protocol_process_char in STATE_WRITE_DATA
WriteData(c) ==
    LET crc1   == crc32_update(crc_accum, c)
        buf1   == Append(page_buffer, c)
        idx1   == page_index + 1
        recv1  == write_received + 1
        full   == PageFull(idx1)
        w1     == IF full THEN flash_write(write_addr, buf1, idx1) ELSE <<>>
        addr2  == IF full THEN Add32(write_addr, idx1) ELSE write_addr
        buf2   == IF full THEN <<>> ELSE buf1
        idx2   == IF full THEN 0 ELSE idx1
        done   == BlockComplete(recv1, write_length)
        w2     == IF done /\ idx2 > 0 THEN flash_write(addr2, buf2, idx2) ELSE <<>>
        addr3  == IF done /\ idx2 > 0 THEN Add32(addr2, idx2) ELSE addr2
        crc_final == crc32_finalize(crc1)
    IN  /\ sha_ctx' = crypto_sha256_update(sha_ctx, <<c>>)
        /\ flash' = ProgramPages(flash, w1 \o w2)
        /\ nvm_wp' = ByWrite(w1 \o w2)
        /\ nvm_er' = {}
        /\ write_addr' = addr3
        /\ page_buffer' = IF done THEN <<>> ELSE buf2
        /\ page_index' = IF done THEN 0 ELSE idx2
        /\ block_payload' = Append(block_payload, c)
        /\ block_length' = block_length
        /\ last' = [kind |-> IF done THEN "block_end" ELSE "data", c |-> c, line |-> <<>>]
        /\ IF done
           THEN /\ out' = <<IF CrcMatches(crc_final, write_expected_crc) THEN OK_WRITE ELSE ERR_CRC>>
                /\ calls' = <<"crc32_update", "crypto_sha256_update">>
                            \o [i \in 1..Len(w1 \o w2) |-> "flash_write"]
                            \o <<"crc32_finalize", "send_str">>
                /\ parser_state' = "WAIT_CMD"
                /\ write_length' = 0
                /\ write_received' = 0
                /\ crc_accum' = -1
           ELSE /\ out' = <<>>
                /\ calls' = <<"crc32_update", "crypto_sha256_update">>
                            \o [i \in 1..Len(w1) |-> "flash_write"]
                /\ parser_state' = parser_state
                /\ write_length' = write_length
                /\ write_received' = recv1
                /\ crc_accum' = crc1
        /\ UNCHANGED <<pc, cmd_buffer, cmd_index, write_expected_crc, wire_line>>

\* protocol_process_char in STATE_WAIT_CMD, c == '\n'
Dispatch ==
    \E r \in {handle_command(cmd_buffer, Cur)} :
        /\ pc' = r.pc
        /\ parser_state' = r.parser_state
        /\ write_addr' = r.write_addr
        /\ write_length' = r.write_length
        /\ write_expected_crc' = r.write_expected_crc
        /\ write_received' = r.write_received
        /\ crc_accum' = r.crc_accum
        /\ page_index' = r.page_index
        /\ sha_ctx' = r.sha_ctx
        /\ flash' = r.flash
        /\ out' = r.out
        /\ nvm_er' = r.nvm_er
        /\ nvm_wp' = r.nvm_wp
        /\ calls' = r.calls
        \* jump_to_application does not return: the buffer is cleared otherwise
        /\ IF r.pc = "app"
           THEN UNCHANGED <<cmd_index, cmd_buffer>>
           ELSE cmd_index' = 0 /\ cmd_buffer' = NUL
        /\ last' = [kind |-> "dispatch", c |-> 10, line |-> wire_line]
        /\ wire_line' = <<>>
        /\ block_payload' = IF r.parser_state = "WRITE_DATA" THEN <<>> ELSE block_payload
        /\ block_length' = IF r.parser_state = "WRITE_DATA" THEN r.write_length ELSE block_length
        /\ UNCHANGED page_buffer

\* protocol_process_char in STATE_WAIT_CMD, c != '\n'
Accumulate(c) ==
    /\ IF c = 13
       THEN UNCHANGED <<cmd_index, cmd_buffer>>
       ELSE IF CmdHasRoom(cmd_index)
            THEN /\ cmd_buffer' = SubSeq(cmd_buffer, 1, cmd_index) \o <<c, 0>>
                 /\ cmd_index' = cmd_index + 1
            ELSE /\ cmd_index' = 0
                 /\ cmd_buffer' = NUL
    /\ out' = <<>>
    /\ nvm_er' = {}
    /\ nvm_wp' = <<>>
    /\ calls' = <<>>
    /\ last' = [kind |-> "text", c |-> c, line |-> <<>>]
    /\ wire_line' = Append(wire_line, c)
    /\ UNCHANGED <<pc, parser_state, write_addr, write_length, write_expected_crc,
                   write_received, crc_accum, page_buffer, page_index, sha_ctx, flash,
                   block_payload, block_length>>

protocol_process_char(c) ==
    IF parser_state = "WRITE_DATA" THEN WriteData(c)
    ELSE IF c = 10 THEN Dispatch
    ELSE Accumulate(c)


(***************************************************************************)
(* usb_stubs.c: the CDC device, polled from the main loop.  usb holds      *)
(* usb_control_state, the RX ring (the slots written so far) and the       *)
(* interrupt flags the peripheral has raised, with the packets behind      *)
(* them.  Every byte received on the OUT endpoint carries the number of    *)
(* its arrival (id), which the code does not see: arrived, delivered,      *)
(* lost_full and lost_flush tell by these numbers what became of it.       *)
(* out holds what send_str was given; the TX ring is followed under        *)
(* SpecTx.                                                                 *)
(***************************************************************************)
LineCoding(rate) == WordBytes(rate) \o <<0, 0, 8>>

\* .data and .bss of usb_stubs.c as init_data_bss leaves them, no flag raised
UsbRam0 ==
    [phase |-> "CTRL_IDLE", configured |-> FALSE, configuration |-> 0,
     line_coding |-> LineCoding(115200), control_line_state |-> 0,
     cdc_rx_buffer |-> <<>>, cdc_rx_head |-> 0, cdc_rx_tail |-> 0,
     eorst |-> FALSE, rxstp |-> FALSE, ep0_trcpt0 |-> FALSE, ep0_trcpt1 |-> FALSE,
     setup |-> <<>>, ep0_out_buffer |-> <<>>, out_trcpt0 |-> FALSE, cdc_out_buffer |-> <<>>,
     arrived |-> 0, delivered |-> <<>>, lost_full |-> {}, lost_flush |-> {}]

usb_cdc_get_baud(u) ==
    Mk(u.line_coding[3] + 256 * u.line_coding[4], u.line_coding[1] + 256 * u.line_coding[2])

\* (uint16_t)(cdc_rx_head - cdc_rx_tail)
usb_ring_rx_count(u) == (u.cdc_rx_head - u.cdc_rx_tail) % 65536

\* the slots between cdc_rx_tail and cdc_rx_head, oldest first
RxQueue(u) ==
    [k \in 1..((u.cdc_rx_head - u.cdc_rx_tail) % CDC_RX_BUFFER_SIZE) |->
        u.cdc_rx_buffer[(u.cdc_rx_tail + k - 1) % CDC_RX_BUFFER_SIZE]]

Ids(q) == {q[k].id : k \in 1..Len(q)}

\* EPINTFLAG = 0xFF and BK0RDY cleared on the OUT endpoint: a packet that
\* waits in cdc_out_buffer is given up
usb_configure_endpoints(u) ==
    [u EXCEPT !.out_trcpt0 = FALSE, !.cdc_out_buffer = <<>>,
              !.lost_flush = @ \cup Ids(u.cdc_out_buffer)]

usb_reset_device(u) ==
    [u EXCEPT !.configured = FALSE, !.configuration = 0, !.phase = "CTRL_IDLE",
              !.cdc_rx_head = 0, !.cdc_rx_tail = 0,
              !.rxstp = FALSE, !.ep0_trcpt0 = FALSE, !.ep0_trcpt1 = FALSE,
              !.setup = <<>>, !.ep0_out_buffer = <<>>,
              !.lost_flush = @ \cup Ids(RxQueue(u))]

\* descriptor reads are answered in one IN packet
usb_handle_standard_request(u, setup) ==
    IF setup.bRequest \in {USB_REQ_GET_DESCRIPTOR, USB_REQ_GET_CONFIGURATION,
                           USB_REQ_GET_STATUS, USB_REQ_GET_INTERFACE}
    THEN [u EXCEPT !.phase = "CTRL_DATA_IN"]
    ELSE IF setup.bRequest \in {USB_REQ_SET_ADDRESS, USB_REQ_SET_INTERFACE}
    THEN [u EXCEPT !.phase = "CTRL_STATUS_IN"]
    ELSE IF setup.bRequest = USB_REQ_SET_CONFIGURATION
    THEN IF setup.wValue % 256 # 0
         THEN [usb_configure_endpoints(u) EXCEPT !.configuration = setup.wValue % 256,
                                                 !.configured = TRUE,
                                                 !.phase = "CTRL_STATUS_IN"]
         ELSE [u EXCEPT !.configuration = 0, !.configured = FALSE, !.phase = "CTRL_STATUS_IN"]
    ELSE [u EXCEPT !.phase = "CTRL_IDLE"]

usb_handle_class_request(u, setup) ==
    IF setup.bmRequestType % (REQTYPE_RECIPIENT_MASK + 1) # REQTYPE_RECIPIENT_INTERFACE
    THEN [u EXCEPT !.phase = "CTRL_IDLE"]
    ELSE IF setup.bRequest = CDC_REQ_SET_LINE_CODING
    THEN [u EXCEPT !.phase = "CTRL_DATA_OUT"]
    ELSE IF setup.bRequest = CDC_REQ_GET_LINE_CODING
    THEN [u EXCEPT !.phase = "CTRL_DATA_IN"]
    ELSE IF setup.bRequest = CDC_REQ_SET_CONTROL_LINE_STATE
    THEN [u EXCEPT !.control_line_state = setup.wValue, !.phase = "CTRL_STATUS_IN"]
    ELSE [u EXCEPT !.phase = "CTRL_IDLE"]

\* bmRequestType & REQTYPE_TYPE_MASK
RequestType(setup) == ((setup.bmRequestType \div 32) % 4) * 32

usb_handle_setup(u) ==
    LET setup == u.setup
        u1    == [u EXCEPT !.rxstp = FALSE, !.setup = <<>>]
    IN  IF RequestType(setup) = REQTYPE_TYPE_STANDARD THEN usb_handle_standard_request(u1, setup)
        ELSE IF RequestType(setup) = REQTYPE_TYPE_CLASS THEN usb_handle_class_request(u1, setup)
        ELSE [u1 EXCEPT !.phase = "CTRL_IDLE"]

usb_handle_ep0_out_complete(u) ==
    IF u.phase = "CTRL_DATA_OUT"
    THEN LET count == Min(Len(u.ep0_out_buffer), 7)
         IN  [u EXCEPT !.line_coding = [i \in 1..7 |-> IF i <= count THEN u.ep0_out_buffer[i] ELSE @[i]],
                       !.phase = "CTRL_STATUS_IN", !.ep0_out_buffer = <<>>]
    ELSE [u EXCEPT !.phase = "CTRL_IDLE", !.ep0_out_buffer = <<>>]

usb_handle_ep0_in_complete(u) == [u EXCEPT !.phase = "CTRL_IDLE"]

\* a variant of RxFree that takes the ring to have room in every slot
RxFreeAll(head, tail) == CDC_RX_BUFFER_SIZE

\* how many times in a row next_head != cdc_rx_tail holds from here
RxFree(head, tail) == (tail - head - 1) % CDC_RX_BUFFER_SIZE

\* The loop over the packet stores its bytes from cdc_rx_head on while
\* next_head != cdc_rx_tail and leaves the rest of the packet at the break.
usb_handle_out_endpoint(u) ==
    IF ~u.configured \/ ~u.out_trcpt0 THEN u
    ELSE LET count == Len(u.cdc_out_buffer)
             fit   == Min(count, RxFree(u.cdc_rx_head, u.cdc_rx_tail))
             slots == {(u.cdc_rx_head + k) % CDC_RX_BUFFER_SIZE : k \in 0..(fit - 1)}
         IN  [u EXCEPT !.cdc_rx_buffer =
                           [i \in DOMAIN @ \cup slots |->
                               IF i \in slots
                               THEN u.cdc_out_buffer[((i - u.cdc_rx_head) % CDC_RX_BUFFER_SIZE) + 1]
                               ELSE @[i]],
                       !.cdc_rx_head = (@ + fit) % CDC_RX_BUFFER_SIZE,
                       !.out_trcpt0 = FALSE, !.cdc_out_buffer = <<>>,
                       !.lost_full = @ \cup {u.cdc_out_buffer[k].id : k \in (fit + 1)..count}]

\* usb_task: the flags of endpoint 0 are read once, after the bus reset
usb_handle_interrupts(u) ==
    LET u1 == IF u.eorst THEN [usb_reset_device(u) EXCEPT !.eorst = FALSE] ELSE u
        u2 == IF u1.rxstp THEN usb_handle_setup(u1) ELSE u1
        u3 == IF u1.ep0_trcpt0 THEN usb_handle_ep0_out_complete([u2 EXCEPT !.ep0_trcpt0 = FALSE])
              ELSE u2
        u4 == IF u1.ep0_trcpt1 THEN usb_handle_ep0_in_complete([u3 EXCEPT !.ep0_trcpt1 = FALSE])
              ELSE u3
    IN  usb_handle_out_endpoint(u4)

\* usb_init ends in usb_reset_device; the peripheral is reset and attached
usb_init(u) ==
    [usb_reset_device(u) EXCEPT !.eorst = FALSE, !.out_trcpt0 = FALSE, !.cdc_out_buffer = <<>>]

(***************************************************************************)
(* main.c                                                                  *)
(***************************************************************************)
\* a variant of check_bootloader_entry that does not look at the line rate
CheckEntryMarkerOnly(baud, fl) == ReadWord(fl, APP_START_ADDRESS - 4) # APP_VALID_MAGIC

check_bootloader_entry(baud, fl) ==
    IF baud = 1200 THEN TRUE
    ELSE IF ReadWord(fl, APP_START_ADDRESS - 4) # APP_VALID_MAGIC THEN TRUE
    ELSE FALSE

\* .bss as init_data_bss leaves it
RamZero ==
    /\ parser_state' = "WAIT_CMD"
    /\ cmd_index' = 0
    /\ cmd_buffer' = NUL
    /\ write_addr' = 0
    /\ write_length' = 0
    /\ write_expected_crc' = 0
    /\ write_received' = 0
    /\ crc_accum' = 0
    /\ page_index' = 0
    /\ page_buffer' = <<>>
    /\ sha_ctx' = [iv |-> FALSE, msg |-> <<>>]

NoEffects(kind) ==
    /\ out' = <<>>
    /\ nvm_er' = {}
    /\ nvm_wp' = <<>>
    /\ last' = [kind |-> kind, c |-> 0, line |-> <<>>]

\* main() up to its loop: jump to the application, or bring the loader up
Boot ==
    /\ pc = "reset"
    /\ IF check_bootloader_entry(usb_cdc_get_baud(usb), flash)
       THEN /\ usb' = usb_init(usb)
            /\ protocol_init
            /\ pc' = "loader"
            /\ NoEffects("boot")
            /\ calls' = <<"usb_init", "flash_init", "protocol_init">>
       ELSE /\ pc' = "app"
            /\ NoEffects("jump")
            /\ calls' = <<"jump_to_application">>
            /\ UNCHANGED <<ram, usb>>
    /\ UNCHANGED <<flash, rx, script, wire_line, block_payload, block_length, host>>

\* one iteration of the main loop in which usb_cdc_getchar returns a byte
MainLoop ==
    /\ pc = "loader"
    /\ rx # <<>>
    /\ protocol_process_char(Head(rx))
    /\ rx' = Tail(rx)
    /\ UNCHANGED <<usbv, host>>

\* one iteration of the main loop over the CDC device: usb_task, then
\* usb_cdc_getchar and, if it returns a byte, protocol_process_char
UsbMainLoop ==
    /\ pc = "loader"
    /\ \E u \in {usb_handle_interrupts(usb)} :
          IF usb_ring_rx_count(u) = 0
          THEN /\ usb' = u
               /\ UNCHANGED <<pc, ram, flash, effects, wire_line, block_payload, block_length>>
          ELSE /\ protocol_process_char(u.cdc_rx_buffer[u.cdc_rx_tail].c)
               /\ usb' = [u EXCEPT !.cdc_rx_tail = (@ + 1) % CDC_RX_BUFFER_SIZE,
                                   !.delivered = Append(@, u.cdc_rx_buffer[u.cdc_rx_tail].id)]
    /\ UNCHANGED <<rx, script, host>>

\* Reset_Handler up to the call of main: .data and .bss are set up again
Reset_Handler ==
    /\ pc' = "reset"
    /\ RamZero
    /\ usb' = UsbRam0
    /\ NoEffects("reset")
    /\ calls' = <<>>
    /\ wire_line' = <<>>
    /\ block_payload' = <<>>
    /\ block_length' = 0
    /\ UNCHANGED flash

\* a reset of the device (power cycle or reset line)
Reset ==
    /\ pc \in {"loader", "app"}
    /\ sends < MaxSends
    /\ rx = <<>>
    /\ typed = <<>>
    /\ Reset_Handler
    /\ sends' = sends + 1
    /\ pat' = <<>>
    /\ UNCHANGED <<rx, script, typed>>

(***************************************************************************)
(* The host: it sends the lines of a repertoire, character by character,   *)
(* and payload bytes that follow a pattern, one byte at a time as the      *)
(* loader takes them.                                                      *)
(***************************************************************************)
HexDigit(n) == IF n < 10 THEN 48 + n ELSE 55 + n
HexByte(b) == <<HexDigit(b \div 16), HexDigit(b % 16)>>

RECURSIVE HexBytes(_)
HexBytes(q) == IF q = <<>> THEN <<>> ELSE HexByte(Head(q)) \o HexBytes(Tail(q))

\* "0x%08X"
Hex32(v) == <<48, 120>> \o HexBytes(<<Hi(v) \div 256, Hi(v) % 256, Lo(v) \div 256, Lo(v) % 256>>)

Payload(p, n) == [i \in 1..n |-> p[((i - 1) % Len(p)) + 1]]

\* crc32_update over q[lo..hi] in order: the range is split in halves and
\* the right half is folded from the value of the left half
RECURSIVE Crc32Fold(_, _, _, _)
Crc32Fold(crc, q, lo, hi) ==
    IF lo > hi THEN crc
    ELSE IF lo = hi THEN crc32_update(crc, q[lo])
    ELSE CHOOSE r \in {Crc32Fold(left, q, ((lo + hi) \div 2) + 1, hi) :
                          left \in {Crc32Fold(crc, q, lo, (lo + hi) \div 2)}} : TRUE

\* the CRC-32 of a whole byte sequence
Crc32Of(q) == crc32_finalize(Crc32Fold(-1, q, 1, Len(q)))

\* the payloads the host sends repeat "ABCD", a line feed, or the four bytes
\* of APP_VALID_MAGIC
Patterns == {ReleaseImage, LF, WordBytes(APP_VALID_MAGIC)}

T_0 == <<48>>
T_1 == <<49>>
T_4 == <<52>>
T_65 == <<54, 53>>
T_0x2000 == <<48, 120, 50, 48, 48, 48>>
T_0x2001 == <<48, 120, 50, 48, 48, 49>>
T_0x40000 == <<48, 120, 52, 48, 48, 48, 48>>
T_0xFFFFFFFF == <<48, 120, 70, 70, 70, 70, 70, 70, 70, 70>>
T_0xFFFFFFFC == <<48, 120, 70, 70, 70, 70, 70, 70, 70, 67>>
T_0x2004 == <<48, 120, 50, 48, 48, 52>>

WriteLine(a, l, c) == WRITE_ \o a \o SP \o l \o SP \o c

\* the CRC-32 of the first 1, 4 and 65 bytes of "ABCDABCD..."
T_crc1 == <<48, 120, 68, 51, 68, 57, 57, 69, 56, 66>>             \* 0xD3D99E8B
T_crc4 == <<48, 120, 68, 66, 49, 55, 50, 48, 65, 53>>             \* 0xDB1720A5
T_crc65 == <<48, 120, 51, 50, 70, 49, 68, 69, 67, 50>>            \* 0x32F1DEC2

\* a block that starts below the end of the address space and ends past it
LongWrite == WriteLine(T_0xFFFFFFFC, T_0x2004, T_0)

WriteLines ==
    { WriteLine(T_0x2000, T_4, T_crc4), WriteLine(T_0x2000, T_4, T_0),
      WriteLine(T_0x2000, T_65, T_crc65), WriteLine(T_0x2000, T_0, T_0),
      WriteLine(T_0x2001, T_1, T_crc1),
      WriteLine(T_0x40000, T_0, T_0), WriteLine(T_0x40000, T_1, T_0),
      WriteLine(T_0xFFFFFFFF, T_1, T_0), WriteLine(T_0, T_4, T_0),
      LongWrite }

\* the release signature as 128 hexadecimal digits
SigText ==
    [i \in 1..128 |-> IF i % 2 = 1 THEN HexDigit(ReleaseSignature[(i + 1) \div 2] \div 16)
                                   ELSE HexDigit(ReleaseSignature[i \div 2] % 16)]

\* "DONE " and the first n characters of the release signature's hex text
DoneLines == { DONE_ \o SubSeq(SigText, 1, n) : n \in {0, 2, 122, 123, 128} }

Lines ==
    { HELLO, HELLO \o <<13>>, ERASE_APP, <<>>, <<70, 79, 79>>,
      <<87, 82, 73, 84, 69>>, WRITE_, WRITE_ \o T_0x2000, WRITE_ \o T_0x2000 \o SP \o T_4 }
    \cup WriteLines \cup DoneLines

\* the characters that continue the prefix t of a line
NextChars(t) ==
    {l[Len(t) + 1] : l \in {x \in Lines : Len(x) > Len(t) /\ SubSeq(x, 1, Len(t)) = t}}

\* the host has sent every payload byte of the block it announced
PayloadSent == parser_state = "WAIT_CMD" \/ Ule(write_length, write_received)

HostChar ==
    /\ pc = "loader"
    /\ rx = <<>>
    /\ sends < MaxSends
    /\ PayloadSent
    /\ \E c \in NextChars(typed) :
          /\ rx' = <<c>>
          /\ typed' = Append(typed, c)
    /\ UNCHANGED <<pc, ram, flash, usbv, effects, wire_line, block_payload, block_length, pat, sends>>

HostLF ==
    /\ pc = "loader"
    /\ rx = <<>>
    /\ sends < MaxSends
    /\ PayloadSent
    /\ typed \in Lines
    /\ typed = LongWrite => sends = 0
    /\ rx' = LF
    /\ typed' = <<>>
    /\ pat' = <<>>
    /\ sends' = IF typed = LongWrite THEN MaxSends - 1 ELSE sends + 1
    /\ UNCHANGED <<pc, ram, flash, usbv, effects, wire_line, block_payload, block_length>>

HostData ==
    /\ pc = "loader"
    /\ rx = <<>>
    /\ typed = <<>>
    /\ ~PayloadSent
    /\ \E p \in Patterns :
          /\ pat \in {<<>>, p}
          /\ pat' = p
          /\ rx' = <<p[(write_received % Len(p)) + 1]>>
    /\ UNCHANGED <<pc, ram, flash, usbv, effects, wire_line, block_payload, block_length, typed, sends>>

(***************************************************************************)
(* The USB host.  It follows one of a few scripts of bus events: control   *)
(* transfers on endpoint 0 (SETUP, the data stage of SET_LINE_CODING, the  *)
(* status stage), packets on the CDC OUT endpoint, a bus reset, and a      *)
(* reset of the device.  The loader runs its main loop at its own pace in  *)
(* between.                                                                *)
(***************************************************************************)
Setup(bm, request, value, length) ==
    [t |-> "setup", data |-> <<>>,
     pkt |-> [bmRequestType |-> bm, bRequest |-> request, wValue |-> value, wLength |-> length]]
Ev(t) == [t |-> t, data |-> <<>>, pkt |-> <<>>]
Out(data) == [t |-> "out", data |-> data, pkt |-> <<>>]
Ep0Out(data) == [t |-> "ep0_out", data |-> data, pkt |-> <<>>]

SetConfiguration(n) == <<Setup(0, USB_REQ_SET_CONFIGURATION, n, 0), Ev("ep0_in")>>
SetControlLineState(v) == <<Setup(33, CDC_REQ_SET_CONTROL_LINE_STATE, v, 0), Ev("ep0_in")>>
SetLineCoding(rate) ==
    <<Setup(33, CDC_REQ_SET_LINE_CODING, 0, 7), Ep0Out(LineCoding(rate)), Ev("ep0_in")>>

\* a full packet of carriage returns, which the protocol skips
Bulk == [i \in 1..CDC_DATA_EP_SIZE |-> 13]
OpenBlock == <<Out(WriteLine(T_0x2000, T_4, T_0) \o LF), Out(<<65>>)>>
Hello == <<Out(HELLO \o LF)>>

Scripts ==
    { \* the port is closed and opened again in the middle of a block
      SetConfiguration(1) \o OpenBlock \o <<Ev("eorst")>> \o SetConfiguration(1) \o Hello,
      SetConfiguration(1) \o OpenBlock \o SetControlLineState(0) \o SetControlLineState(3) \o Hello,
      SetConfiguration(1) \o OpenBlock \o SetLineCoding(1200) \o SetLineCoding(115200) \o Hello,
      \* the 1200-baud touch: the rate is set, then the device is reset
      SetConfiguration(1) \o SetLineCoding(1200) \o <<Ev("reset")>> \o SetConfiguration(1) \o Hello,
      \* more data than the ring holds
      SetConfiguration(1) \o [i \in 1..FloodPackets |-> Out(Bulk)],
      \* queued bytes and a waiting packet at a bus reset or a new configuration
      SetConfiguration(1) \o <<Out(Bulk), Ev("eorst")>> \o SetConfiguration(1) \o <<Out(Bulk)>>,
      SetConfiguration(1) \o Hello \o SetConfiguration(1) \o Hello }

\* the host that follows no script
NoScript == [todo |-> <<>>, done |-> <<>>]

UsbEvent(t) == pc = "loader" /\ script.todo # <<>> /\ Head(script.todo).t = t

Advance == [todo |-> Tail(script.todo), done |-> Append(script.done, Head(script.todo))]

\* no flag of endpoint 0 is waiting for usb_task
Ep0Idle == ~usb.rxstp /\ ~usb.ep0_trcpt0 /\ ~usb.ep0_trcpt1

UsbFrame == UNCHANGED <<pc, ram, flash, rx, effects, wire_line, block_payload, block_length, host>>

UsbSetup ==
    /\ UsbEvent("setup")
    /\ Ep0Idle
    /\ usb' = [usb EXCEPT !.rxstp = TRUE, !.setup = Head(script.todo).pkt]
    /\ script' = Advance
    /\ UsbFrame

UsbEp0Out ==
    /\ UsbEvent("ep0_out")
    /\ Ep0Idle
    /\ usb.phase = "CTRL_DATA_OUT"
    /\ usb' = [usb EXCEPT !.ep0_trcpt0 = TRUE, !.ep0_out_buffer = Head(script.todo).data]
    /\ script' = Advance
    /\ UsbFrame

UsbEp0In ==
    /\ UsbEvent("ep0_in")
    /\ Ep0Idle
    /\ usb.phase \in {"CTRL_STATUS_IN", "CTRL_DATA_IN"}
    /\ usb' = [usb EXCEPT !.ep0_trcpt1 = TRUE]
    /\ script' = Advance
    /\ UsbFrame

\* a packet on the CDC OUT endpoint, taken when bank 0 is free
UsbOut ==
    /\ UsbEvent("out")
    /\ Ep0Idle
    /\ usb.configured
    /\ ~usb.out_trcpt0
    /\ usb' = [usb EXCEPT !.out_trcpt0 = TRUE,
                          !.cdc_out_buffer = [k \in 1..Len(Head(script.todo).data) |->
                                                 [c |-> Head(script.todo).data[k], id |-> usb.arrived + k]],
                          !.arrived = @ + Len(Head(script.todo).data)]
    /\ script' = Advance
    /\ UsbFrame

UsbBusReset ==
    /\ UsbEvent("eorst")
    /\ usb' = [usb EXCEPT !.eorst = TRUE]
    /\ script' = Advance
    /\ UsbFrame

UsbDeviceReset ==
    /\ UsbEvent("reset")
    /\ Ep0Idle
    /\ Reset_Handler
    /\ script' = Advance
    /\ UNCHANGED <<rx, host>>

(***************************************************************************)
(* Specification                                                           *)
(***************************************************************************)
Start ==
    /\ pc = "reset"
    /\ parser_state = "WAIT_CMD"
    /\ cmd_index = 0
    /\ cmd_buffer = NUL
    /\ write_addr = 0
    /\ write_length = 0
    /\ write_expected_crc = 0
    /\ write_received = 0
    /\ crc_accum = 0
    /\ page_index = 0
    /\ page_buffer = <<>>
    /\ sha_ctx = [iv |-> FALSE, msg |-> <<>>]
    /\ rx = <<>>
    /\ out = <<>>
    /\ nvm_er = {}
    /\ nvm_wp = <<>>
    /\ calls = <<>>
    /\ last = [kind |-> "reset", c |-> 0, line |-> <<>>]
    /\ wire_line = <<>>
    /\ block_payload = <<>>
    /\ block_length = 0
    /\ typed = <<>>
    /\ pat = <<>>
    /\ sends = 0

PowerOnFlash == {[base |-> b, erased |-> {}, mem |-> <<>>] : b \in {"blank", "image"}}

Init ==
    /\ Start
    /\ flash \in PowerOnFlash
    /\ usb = UsbRam0
    /\ script = NoScript

Next == Boot \/ MainLoop \/ Reset \/ HostChar \/ HostLF \/ HostData

Spec == Init /\ [][Next]_vars

(***************************************************************************)
(* flash_write over its inputs: it is called as protocol_process_char      *)
(* calls it, with write_addr, page_buffer and page_index, for every page   *)
(* address of PageAddrs, every length from 0 to FLASH_PAGE_SIZE and every  *)
(* buffer of PageBuffers, on the flash of a blank device after ERASE APP,  *)
(* with and without earlier blocks in the neighbouring pages.              *)
(***************************************************************************)
\* the first, second and last page of a row, the first page of the next
\* row, the last page of the flash
PageAddrs ==
    {APP_START_ADDRESS, APP_START_ADDRESS + FLASH_PAGE_SIZE,
     APP_START_ADDRESS + FLASH_ROW_SIZE - FLASH_PAGE_SIZE,
     APP_START_ADDRESS + FLASH_ROW_SIZE, FLASH_SIZE - FLASH_PAGE_SIZE}

PageBuffers == {Payload(p, FLASH_PAGE_SIZE) : p \in Patterns \cup {<<0, 254, 1>>}}

\* the blank device after ERASE APP
ErasedFlash == EraseRows([base |-> "blank", erased |-> {}, mem |-> <<>>], flash_erase_application)

\* blocks of one page programmed before and after the page at p, where
\* these pages are in the application region
ErasedPageFlash(f, p) ==
    ProgramPages(f,
                 (IF InAppRegion(p - FLASH_PAGE_SIZE)
                  THEN flash_write(p - FLASH_PAGE_SIZE, Payload(<<90>>, FLASH_PAGE_SIZE),
                                   FLASH_PAGE_SIZE)
                  ELSE <<>>)
                 \o (IF InAppRegion(p + FLASH_PAGE_SIZE)
                     THEN flash_write(p + FLASH_PAGE_SIZE, Payload(<<165>>, FLASH_PAGE_SIZE),
                                      FLASH_PAGE_SIZE)
                     ELSE <<>>))

InitFlashWrite ==
    /\ pc = "flash_write"
    /\ parser_state = "WRITE_DATA"
    /\ cmd_index = 0
    /\ cmd_buffer = NUL
    /\ write_addr \in PageAddrs
    /\ write_length = FLASH_PAGE_SIZE
    /\ write_expected_crc = 0
    /\ write_received = 0
    /\ crc_accum = 0
    /\ page_index \in 0..FLASH_PAGE_SIZE
    /\ page_buffer \in PageBuffers
    /\ sha_ctx = [iv |-> FALSE, msg |-> <<>>]
    /\ flash \in {ErasedFlash, ErasedPageFlash(ErasedFlash, write_addr)}
    /\ rx = <<>>
    /\ usb = UsbRam0
    /\ script = NoScript
    /\ out = <<>>
    /\ nvm_er = {}
    /\ nvm_wp = <<>>
    /\ calls = <<>>
    /\ last = [kind |-> "reset", c |-> 0, line |-> <<>>]
    /\ wire_line = <<>>
    /\ block_payload = <<>>
    /\ block_length = 0
    /\ typed = <<>>
    /\ pat = <<>>
    /\ sends = 0

\* flash_write(write_addr, page_buffer, page_index)
FlashWriteCall ==
    /\ pc = "flash_write"
    /\ \E ws \in {flash_write(write_addr, page_buffer, page_index)} :
           /\ flash' = ProgramPages(flash, ws)
           /\ nvm_wp' = ByWrite(ws)
    /\ pc' = "returned"
    /\ out' = <<>>
    /\ nvm_er' = {}
    /\ calls' = <<"flash_write">>
    /\ last' = [kind |-> "flash_write", c |-> 0, line |-> <<>>]
    /\ UNCHANGED <<ram, rx, usbv, wire_line, block_payload, block_length, host>>

NextFlashWrite == FlashWriteCall

SpecFlashWrite == InitFlashWrite /\ [][NextFlashWrite]_vars

(***************************************************************************)
(* The loader over the CDC device: the bytes reach the protocol through    *)
(* the OUT endpoint and the RX ring, and the host acts on the bus.         *)
(***************************************************************************)
InitUsb ==
    /\ Start
    /\ flash \in PowerOnFlash
    /\ usb = UsbRam0
    /\ script \in {[todo |-> s, done |-> <<>>] : s \in Scripts}

NextUsb ==
    Boot \/ UsbMainLoop \/ UsbSetup \/ UsbEp0Out \/ UsbEp0In \/ UsbOut \/ UsbBusReset
    \/ UsbDeviceReset

SpecUsb == InitUsb /\ [][NextUsb]_vars

(***************************************************************************)
(* The boot decision over its inputs: main() is run from every pair of a   *)
(* line rate held in usb_control_state.line_coding and a word held at      *)
(* APP_START_ADDRESS - 4.                                                  *)
(***************************************************************************)
EntryBauds == {0, 300, 1199, 1200, 1201, 9600, 115200, 1200 + 65536, 1200 * 256, -1}

\* the magic, its neighbours, 0, its bytes swapped (0xF013AA55), one bit off
EntryWords ==
    {APP_VALID_MAGIC, APP_VALID_MAGIC + 1, APP_VALID_MAGIC - 1, 0, -267146667,
     APP_VALID_MAGIC + 65536}

MarkerFlash(w) ==
    [base |-> "blank", erased |-> {},
     mem |-> [a \in MarkerAddr..(MarkerAddr + 3) |-> WordBytes(w)[a - MarkerAddr + 1]]]

InitEntry ==
    /\ Start
    /\ flash \in PowerOnFlash \cup {MarkerFlash(w) : w \in EntryWords}
    /\ usb \in {[UsbRam0 EXCEPT !.line_coding = LineCoding(b)] : b \in EntryBauds}
    /\ script = NoScript

NextEntry == Boot

SpecEntry == InitEntry /\ [][NextEntry]_vars

(***************************************************************************)
(* The loader deep in the block of LongWrite: the line                     *)
(* WRITE 0xFFFFFFFC 0x2004 0 has been accepted and APP_START_ADDRESS       *)
(* payload bytes that follow the pattern p have been taken in, as 128 full *)
(* pages programmed from 0xFFFFFFFC round through 0 up to the marker word; *)
(* four bytes of the block are to come (q is the payload so far).          *)
(* SpecWrap starts there.                                                  *)
(***************************************************************************)
WrapCount == MarkerAddr + 4

WrapState(b, p, q) ==
    [pc |-> "loader", parser_state |-> "WRITE_DATA", cmd_buffer |-> NUL, cmd_index |-> 0,
     write_addr |-> MarkerAddr, write_length |-> WrapCount + 4, write_expected_crc |-> 0,
     write_received |-> WrapCount,
     \* the CRC register after these bytes: 0xFBB9FBA9 after "ABCDABCD...",
     \* 0xADFE8628 after line feeds, 0x72BB33E9 after the bytes of the magic
     crc_accum |-> IF p = ReleaseImage THEN -71697495
                   ELSE IF p = LF THEN -1375828440 ELSE 1924871145,
     page_buffer |-> <<>>, page_index |-> 0,
     sha_ctx |-> crypto_sha256_update(crypto_sha256_init, q),
     flash |-> [base |-> b, erased |-> {},
                mem |-> [a \in (-4)..(MarkerAddr - 1) |-> p[((a + 4) % Len(p)) + 1]]],
     rx |-> <<>>, usb |-> UsbRam0, script |-> NoScript, out |-> <<>>, nvm_er |-> {},
     nvm_wp |-> ByWrite(flash_write(MarkerAddr - FLASH_PAGE_SIZE,
                                    [i \in 1..FLASH_PAGE_SIZE |-> p[((i - 1) % Len(p)) + 1]],
                                    FLASH_PAGE_SIZE)),
     calls |-> <<"crc32_update", "crypto_sha256_update", "flash_write">>,
     last |-> [kind |-> "data", c |-> p[((WrapCount - 1) % Len(p)) + 1], line |-> <<>>],
     wire_line |-> <<>>, block_payload |-> q,
     block_length |-> WrapCount + 4,
     typed |-> <<>>, pat |-> p, sends |-> MaxSends - 1]

StateRecord ==
    [pc |-> pc, parser_state |-> parser_state, cmd_buffer |-> cmd_buffer, cmd_index |-> cmd_index,
     write_addr |-> write_addr, write_length |-> write_length,
     write_expected_crc |-> write_expected_crc, write_received |-> write_received,
     crc_accum |-> crc_accum, page_buffer |-> page_buffer, page_index |-> page_index,
     sha_ctx |-> sha_ctx, flash |-> flash, rx |-> rx, usb |-> usb, script |-> script, out |-> out, nvm_er |-> nvm_er,
     nvm_wp |-> nvm_wp, calls |-> calls, last |-> last, wire_line |-> wire_line,
     block_payload |-> block_payload, block_length |-> block_length,
     typed |-> typed, pat |-> pat, sends |-> sends]

WrapStates ==
    UNION {{WrapState("blank", p, q) : q \in {Payload(p, WrapCount)}} : p \in Patterns}

InitWrap ==
    \E w \in WrapStates :
        /\ pc = w.pc /\ parser_state = w.parser_state
        /\ cmd_buffer = w.cmd_buffer /\ cmd_index = w.cmd_index
        /\ write_addr = w.write_addr /\ write_length = w.write_length
        /\ write_expected_crc = w.write_expected_crc /\ write_received = w.write_received
        /\ crc_accum = w.crc_accum /\ page_buffer = w.page_buffer /\ page_index = w.page_index
        /\ sha_ctx = w.sha_ctx /\ flash = w.flash /\ rx = w.rx
        /\ usb = w.usb /\ script = w.script
        /\ out = w.out /\ nvm_er = w.nvm_er /\ nvm_wp = w.nvm_wp /\ calls = w.calls
        /\ last = w.last /\ wire_line = w.wire_line
        /\ block_payload = w.block_payload /\ block_length = w.block_length
        /\ typed = w.typed /\ pat = w.pat /\ sends = w.sends

SpecWrap == InitWrap /\ [][Next]_vars

\* the step of MainLoop seen from the CDC layer: the oldest byte is taken
\* (no other action of Next shortens rx)
TakeByte == pc = "loader" /\ rx # <<>> /\ rx' = Tail(rx)

\* The main loop never stops taking the bytes the CDC layer holds, and the
\* host goes on sending the payload of a block it has announced.
SpecLive == SpecWrap /\ WF_rx(TakeByte) /\ WF_vars(HostData)

\* Under Spec, the loader that has taken in WrapCount bytes of the block of
\* LongWrite is in one of the states SpecWrap starts in.
WrapStateIsReached ==
    (parser_state = "WRITE_DATA" /\ write_received = WrapCount /\ rx = <<>>) =>
        StateRecord \in WrapStates

(***************************************************************************)
(* Properties.  The effects of the last call of protocol_process_char are  *)
(* in out, nvm_er, nvm_wp and calls; last tells what that call was.        *)
(***************************************************************************)
\* the loader has just returned from a call of that kind (the host has not
\* sent since)
JustRan(kind) == last.kind = kind /\ rx = <<>>
Dispatched == JustRan("dispatch")
BlockEnded == JustRan("block_end")

NoFlashMutation == nvm_wp = <<>> /\ nvm_er = {}
Called(name) == \E i \in 1..Len(calls) : calls[i] = name

MarkerBytes == {MarkerAddr + k : k \in 0..3}
MarkerIsMagic == ReadWord(flash, MarkerAddr) = APP_VALID_MAGIC

\* C1: every page write issued from the WRITE data path puts its data bytes
\* only at addresses a with APP_START_ADDRESS <= a < FLASH_SIZE, whatever the
\* line was (len = 0, unaligned addr, short last page, addr + len past 2^32).
C1_WritePathStaysInApp ==
    \A i \in 1..Len(nvm_wp) :
        nvm_wp[i].by = "write_data" =>
            \A k \in 0..(nvm_wp[i].n - 1) : InAppRegion(Add32(nvm_wp[i].addr, k))

\* C2: a page write that puts a data byte on the marker word at
\* APP_START_ADDRESS - 4 is one of flash_set_app_valid_flag, issued in the
\* DONE branch after crypto_ed25519_verify returned true.
C2_MarkerOnlyByDone ==
    \A i \in 1..Len(nvm_wp) :
        (\E k \in 0..(nvm_wp[i].n - 1) : Add32(nvm_wp[i].addr, k) \in MarkerBytes) =>
            nvm_wp[i].by = "flash_set_app_valid_flag" /\ Called("verify_true")

\* the application region holds the image that was installed with its marker
InstalledImageIntact(fl) ==
    /\ fl.base = "image"
    /\ \A r \in fl.erased : ~InAppRegion(r)
    /\ \A a \in DOMAIN fl.mem : ~InAppRegion(a)

\* the application region was erased and holds exactly the release image
HoldsRelease(fl) ==
    /\ flash_erase_application \subseteq fl.erased
    /\ \A i \in 1..Len(ReleaseImage) :
          /\ (APP_START_ADDRESS + i - 1) \in DOMAIN fl.mem
          /\ fl.mem[APP_START_ADDRESS + i - 1] = ReleaseImage[i]
    /\ \A a \in DOMAIN fl.mem :
          InAppRegion(a) /\ a >= APP_START_ADDRESS + Len(ReleaseImage) => fl.mem[a] = 255

\* C3: in every state, over resets and sessions, the marker equals the magic
\* only if the application region holds a complete authenticated image.
C3_MarkerImpliesImage ==
    MarkerIsMagic => InstalledImageIntact(flash) \/ HoldsRelease(flash)

\* C4: once ERASE APP, the WRITE block of the release image and the line
\* "DONE " with the 128 hex digits of the release signature have been taken in,
\* the loader has replied OK DONE, the marker equals the magic and the
\* application has been jumped to.
C4_ReleaseStreamInstalls ==
    (/\ Dispatched
     /\ last.line = DONE_ \o SigText
     /\ HoldsRelease(flash)
     /\ block_payload = ReleaseImage /\ write_expected_crc = Crc32Of(ReleaseImage)
     /\ sha_ctx \in {crypto_sha256_update(crypto_sha256_init, ReleaseImage),
                     crypto_sha256_final(sha_ctx)})
    => (out = <<OK_DONE>> /\ MarkerIsMagic /\ pc = "app")

\* the argument fields of a line that begins "WRITE "
WriteFields(line) == strtok(SubSeq(line, 7, Len(line)), 1, SP)

BeginsWith(line, text) == Len(line) >= Len(text) /\ SubSeq(line, 1, Len(text)) = text

\* C5: a line WRITE <addr> <len> <crc> with addr < APP_START_ADDRESS or with
\* addr + len > FLASH_SIZE, the sum not reduced modulo 2^32, is answered
\* ERR PARAM, leaves the parser in WAIT_CMD and mutates no flash.
C5_OutOfRangeRejected ==
    (Dispatched /\ BeginsWith(last.line, WRITE_) /\ Len(WriteFields(last.line)) >= 3) =>
        LET addr   == strtoul(WriteFields(last.line)[1], 0).value
            length == strtoul(WriteFields(last.line)[2], 0).value
        IN  (\/ Ult(addr, APP_START_ADDRESS)
             \/ Carry32(addr, length) = 1
             \/ Ult(FLASH_SIZE, Add32(addr, length)))
            => (out = <<ERR_PARAM>> /\ parser_state = "WAIT_CMD" /\ NoFlashMutation)

\* C6: the bytes consumed as payload after an accepted WRITE line never
\* number more than the declared length, and number exactly the declared
\* length when the block ends (none when the length is 0).
C6_ExactlyLenBytes ==
    /\ Ule(write_received, write_length)
    /\ (JustRan("data") \/ BlockEnded) => Ule(Len(block_payload), block_length)
    /\ BlockEnded => Len(block_payload) = block_length

\* every byte of the block is in the flash at its place, the block ending
\* at write_addr
PayloadProgrammed ==
    \A i \in 1..Len(block_payload) :
        LET a == Add32(write_addr, Neg32(Len(block_payload) - i + 1))
        IN  a \in DOMAIN flash.mem /\ flash.mem[a] = block_payload[i]

\* C7: at the last payload byte of a block the reply is OK WRITE if and only
\* if the CRC-32 of that block's payload equals the declared crc, and ERR CRC
\* otherwise; either way the payload has been programmed, the transaction is
\* reset and the parser is in WAIT_CMD.
C7_ReplyIffCrc ==
    BlockEnded =>
        /\ out = <<IF Crc32Of(block_payload) = write_expected_crc THEN OK_WRITE ELSE ERR_CRC>>
        /\ PayloadProgrammed
        /\ write_length = 0 /\ write_received = 0 /\ crc_accum = -1 /\ page_index = 0
        /\ parser_state = "WAIT_CMD"

\* a block of two pages ends with OK WRITE
C7_Witness == BlockEnded /\ out = <<OK_WRITE>> /\ Len(block_payload) = FLASH_PAGE_SIZE + 1

\* C8: no reply is emitted when a WRITE line is accepted nor at any payload
\* byte before the last; at the last byte of the block, when all declared
\* bytes are in, exactly one reply is emitted, after the last flash_write and
\* the finalisation of the CRC.
C8_OneReplyAfterBlock ==
    /\ (Dispatched /\ parser_state = "WRITE_DATA") => out = <<>>
    /\ JustRan("data") => (out = <<>> /\ ~Called("send_str"))
    /\ BlockEnded =>
          /\ Len(out) = 1
          /\ Ule(block_length, Len(block_payload))
          /\ calls[Len(calls)] = "send_str"
          /\ \A i \in 1..(Len(calls) - 1) : calls[i] # "send_str"
          /\ Called("crc32_finalize")

\* a block of four bytes ends with ERR CRC
C8_Witness == BlockEnded /\ out = <<ERR_CRC>> /\ Len(block_payload) = 4 /\ block_length = 4

IsHexChar(c) == (c >= 48 /\ c <= 57) \/ (c >= 97 /\ c <= 102) \/ (c >= 65 /\ c <= 70)
IsHex128(text) == Len(text) = 128 /\ \A i \in 1..Len(text) : IsHexChar(text[i])

\* C9: a line that begins "DONE " and whose remainder is not exactly 128
\* hexadecimal digits is answered ERR FORMAT; the hash is not finalised, the
\* verifier not called, the marker not written and the parser stays in WAIT_CMD.
C9_BadDoneIsFormatError ==
    (Dispatched /\ BeginsWith(last.line, DONE_) /\ ~IsHex128(SubSeq(last.line, 6, Len(last.line)))) =>
        /\ out = <<ERR_FORMAT>>
        /\ ~Called("crypto_sha256_final") /\ ~Called("verify_true") /\ ~Called("verify_false")
        /\ NoFlashMutation
        /\ parser_state = "WAIT_CMD"

\* C10: a WRITE line with fewer than three argument fields, the bare line
\* WRITE included, is answered ERR FORMAT and leaves the parser in WAIT_CMD.
C10_ShortWriteIsFormatError ==
    (/\ Dispatched
     /\ last.line = SubSeq(WRITE_, 1, 5) \/ BeginsWith(last.line, WRITE_)
     /\ Len(WriteFields(last.line)) < 3)
    => (out = <<ERR_FORMAT>> /\ parser_state = "WAIT_CMD")


\* the rows that make up [APP_START_ADDRESS, FLASH_SIZE)
AppRows ==
    {r \in {k * FLASH_ROW_SIZE : k \in 0..(FLASH_SIZE \div FLASH_ROW_SIZE - 1)} :
        r + FLASH_ROW_SIZE > APP_START_ADDRESS}

\* the loader takes a byte from the CDC layer in this step
ProtocolStep == pc = "loader" /\ rx # <<>>

\* C11: when the line ERASE APP is dispatched, the rows handed to the row
\* erase are exactly the rows of [APP_START_ADDRESS, FLASH_SIZE), none of
\* which holds a byte below APP_START_ADDRESS; afterwards every byte of the
\* application region reads 0xFF, every byte below APP_START_ADDRESS reads
\* what it read before, the reply is OK ERASE and the parser is in WAIT_CMD.
C11_EraseApp ==
    [][(ProtocolStep /\ last'.kind = "dispatch" /\ last'.line = ERASE_APP) =>
          /\ nvm_er' = AppRows
          /\ \A r \in nvm_er' : r >= APP_START_ADDRESS
          /\ \A a \in APP_START_ADDRESS..(FLASH_SIZE - 1) : ReadByte(flash', a) = 255
          /\ \A a \in 0..(APP_START_ADDRESS - 1) : ReadByte(flash', a) = ReadByte(flash, a)
          /\ out' = <<OK_ERASE>>
          /\ parser_state' = "WAIT_CMD"]_vars

\* ERASE APP has been answered on a device that had taken in a block before
C11_Witness ==
    /\ Dispatched /\ last.line = ERASE_APP /\ out = <<OK_ERASE>>
    /\ block_payload # <<>>
    /\ nvm_er # {}

\* C12: main() remains resident exactly when the line rate it reads is 1200
\* or the word at APP_START_ADDRESS - 4 is not APP_VALID_MAGIC; otherwise it
\* calls jump_to_application and nothing else: usb_init, flash_init and
\* protocol_init have not run and the RAM is as the startup code left it.
C12_EntryDecision ==
    last.kind \in {"boot", "jump"} =>
        /\ (last.kind = "boot") <=>
               (SubSeq(usb.line_coding, 1, 4) = WordBytes(1200) \/ ~MarkerIsMagic)
        /\ (last.kind = "boot") <=> (pc = "loader")
        /\ (last.kind = "jump") <=> (pc = "app")
        /\ Called("jump_to_application") <=> (last.kind = "jump")
        /\ last.kind = "jump" =>
              /\ calls = <<"jump_to_application">>
              /\ crc_accum = 0 /\ ~sha_ctx.iv /\ ~usb.configured

\* the marker is valid and the loader stays resident for the line rate alone
C12_Witness ==
    /\ last.kind = "boot" /\ pc = "loader"
    /\ MarkerIsMagic
    /\ usb_cdc_get_baud(usb) = 1200

\* the host has set the line rate to 1200 (setup, data and status stage
\* done) and has then reset the device
Touched ==
    \E j \in 3..Len(script.done) :
        /\ script.done[j].t = "reset"
        /\ script.done[j - 1].t = "ep0_in"
        /\ script.done[j - 2].t = "ep0_out"
        /\ script.done[j - 2].data = LineCoding(1200)

\* C13: after the host's SET_LINE_CODING with rate 1200 and the reset that
\* follows it, the entry predicate reads usb_cdc_get_baud() = 1200 and the
\* loader does not jump to the application.
C13_TouchKeepsResident ==
    Touched =>
        /\ pc = "reset" => usb_cdc_get_baud(usb) = 1200
        /\ pc # "app"

\* the loader is in a block of which bytes are still to come
MidBlock == parser_state = "WRITE_DATA" /\ Ult(write_received, write_length)

\* in this step usb_task handles what a host does when it closes or opens
\* the port: a bus reset, SET_CONTROL_LINE_STATE, or the data stage of
\* SET_LINE_CODING
ReopenHandled ==
    /\ pc = "loader" /\ pc' = "loader"
    /\ \/ usb.eorst /\ ~usb'.eorst
       \/ /\ ~usb.eorst /\ usb.rxstp /\ ~usb'.rxstp
          /\ usb.setup.bRequest = CDC_REQ_SET_CONTROL_LINE_STATE
       \/ ~usb.eorst /\ usb.ep0_trcpt0 /\ ~usb'.ep0_trcpt0 /\ usb.phase = "CTRL_DATA_OUT"

\* C14: when the loader handles a bus reset, a SET_CONTROL_LINE_STATE or a
\* SET_LINE_CODING while it is in WRITE_DATA with fewer than write_length
\* bytes received, the transaction is aborted: the parser is in WAIT_CMD
\* afterwards (so that the next line is dispatched as a command).
C14_ReopenAborts ==
    [][(MidBlock /\ ReopenHandled) => parser_state' = "WAIT_CMD"]_vars

\* C15: a reply is only ever emitted by a call that returns in WAIT_CMD; a
\* block announced with a length of 1 or more ends on its last payload byte
\* and on no earlier byte, whatever the bytes are; and every such block,
\* once accepted, ends with its reply and the parser in WAIT_CMD (unless
\* the device is reset first).
C15_BlockEndsAtLength ==
    /\ [](out # <<>> => parser_state = "WAIT_CMD")
    /\ []((last.kind = "block_end" /\ block_length # 0) =>
             (Len(block_payload) = block_length /\ Len(out) = 1))
    /\ ((parser_state = "WRITE_DATA" /\ write_length # 0) ~>
           (pc = "reset" \/ (last.kind = "block_end" /\ Len(out) = 1 /\ parser_state = "WAIT_CMD")))

\* a block of more than a page has ended on its last byte, line feeds
\* among its payload
C15_Witness ==
    /\ BlockEnded /\ block_length > FLASH_PAGE_SIZE /\ Len(block_payload) = block_length
    /\ \E i \in 1..Len(block_payload) : block_payload[i] = 10
    /\ Len(out) = 1 /\ parser_state = "WAIT_CMD"

\* the arrival numbers of the bytes between cdc_rx_tail and cdc_rx_head,
\* oldest first
RxIds(u) ==
    [k \in 1..((u.cdc_rx_head - u.cdc_rx_tail) % CDC_RX_BUFFER_SIZE) |->
        u.cdc_rx_buffer[(u.cdc_rx_tail + k - 1) % CDC_RX_BUFFER_SIZE].id]

\* the bytes of the CDC OUT endpoint the device has handed to
\* protocol_process_char or still holds in the ring, oldest first
Pipeline(u) == u.delivered \o RxIds(u)

Range(s) == {s[k] : k \in 1..Len(s)}

Increasing(ids) == \A k \in 1..(Len(ids) - 1) : ids[k] < ids[k + 1]

IsPrefix(s, t) == Len(s) <= Len(t) /\ \A k \in 1..Len(s) : s[k] = t[k]

\* the delivered and the queued bytes are in arrival order, each once, and
\* the packet that waits in the OUT bank is the newest
RxInOrder ==
    \E p \in {Pipeline(usb)} : \E n \in {Len(usb.cdc_out_buffer)} :
        /\ Increasing(p)
        /\ \A k \in 1..Len(p) : p[k] \in 1..(usb.arrived - n)
        /\ \A k \in 1..n : usb.cdc_out_buffer[k].id = usb.arrived - n + k

\* the bytes that arrived and will never reach protocol_process_char
Omitted ==
    UNION {(1..(usb.arrived - Len(usb.cdc_out_buffer))) \ Range(p) : p \in {Pipeline(usb)}}

\* C16 as stated: the bytes handed to protocol_process_char are a
\* subsequence of the bytes received on the OUT endpoint, and a byte is
\* omitted only when the ring was full as its packet was drained.
C16_OmittedOnlyWhenFull == RxInOrder /\ Omitted \subseteq usb.lost_full

\* C16: the bytes handed to protocol_process_char are, in order, a
\* subsequence of the bytes received on the OUT endpoint, each at most once
\* and at most one per iteration of main's loop; a byte is omitted only when
\* the ring was full as its packet was drained, when a bus reset emptied the
\* ring while it was queued, or when the OUT endpoint was configured again
\* while its packet waited; apart from these flushes and a reset of the
\* device, queued bytes are neither overwritten nor reordered.
C16_RxRing ==
    /\ [](RxInOrder /\ Omitted \subseteq (usb.lost_full \cup usb.lost_flush))
    /\ [][Len(usb'.delivered) <= Len(usb.delivered) + 1]_vars
    /\ [][(usb'.lost_flush = usb.lost_flush /\ pc' # "reset") =>
              \E p \in {Pipeline(usb)} : \E q \in {Pipeline(usb')} : IsPrefix(p, q)]_vars

\* the end of a packet was dropped at a full ring and every byte queued
\* before it has been handed over, up to the last one that fitted
C16_Witness ==
    /\ usb.lost_full # {} /\ usb.lost_flush = {}
    /\ RxQueue(usb) = <<>> /\ usb.delivered # <<>>
    /\ usb.delivered[Len(usb.delivered)] + 1 \in usb.lost_full

NotCR(c) == c # 13

\* the line as the host typed it is HELLO, carriage returns aside
IsHelloLine(line) == SelectSeq(line, NotCR) = HELLO

\* C17: the call of protocol_process_char that dispatches the line HELLO
\* sends exactly "OK BOOT v1.0\n", issues no NVM command and leaves
\* parser_state, the variables of the write transaction, the page buffer,
\* the image hash context and the flash as they were.
C17_Hello ==
    [][(ProtocolStep /\ last'.kind = "dispatch" /\ IsHelloLine(last'.line)) =>
          /\ out' = <<(<<79, 75, 32, 66, 79, 79, 84, 32, 118, 49, 46, 48, 10>>)>>
          /\ nvm_er' = {} /\ nvm_wp' = <<>>
          /\ pc' = "loader"
          /\ UNCHANGED <<parser_state, write_addr, write_length, write_expected_crc,
                         write_received, crc_accum, page_index, page_buffer,
                         sha_ctx, flash>>]_vars

\* HELLO has been answered on a device that had taken in a block before,
\* with a hash context and a write address that are not the initial ones
C17_Witness ==
    /\ Dispatched /\ IsHelloLine(last.line) /\ Len(out) = 1
    /\ block_payload # <<>> /\ write_addr # 0

\* C18: every address handed to flash_write and committed with the WP
\* command, by a block of WRITE inside the application window or by
\* flash_set_app_valid_flag, is a multiple of FLASH_PAGE_SIZE, and every
\* address of an ER command is a multiple of FLASH_ROW_SIZE.
C18_AlignedAddresses ==
    /\ \A i \in 1..Len(nvm_wp) :
           (nvm_wp[i].by = "flash_set_app_valid_flag" \/ InAppRegion(nvm_wp[i].addr)) =>
               nvm_wp[i].addr % FLASH_PAGE_SIZE = 0
    /\ \A r \in nvm_er : r % FLASH_ROW_SIZE = 0

\* the page at addr reads 0xFF throughout
PageErased(fl, addr) ==
    \A k \in 0..(FLASH_PAGE_SIZE - 1) : ReadByte(fl, Add32(addr, k)) = 255

\* C19: whenever a call of protocol_process_char programs a page, for
\* flash_set_app_valid_flag or for the payload of a WRITE of one byte or
\* more to a page of the application window, that page reads 0xFF
\* throughout before the call.
C19_ProgramsErasedPages ==
    [][ProtocolStep =>
          \A i \in 1..Len(nvm_wp') :
              (\/ nvm_wp'[i].by = "flash_set_app_valid_flag"
               \/ /\ nvm_wp'[i].addr % FLASH_PAGE_SIZE = 0
                  /\ InAppRegion(nvm_wp'[i].addr)
                  /\ block_length' >= 1) =>
                  PageErased(flash, nvm_wp'[i].addr)]_vars

\* the addresses of the page at p
PageOf(p) == {Add32(p, i) : i \in 0..(FLASH_PAGE_SIZE - 1)}

\* C20: flash_write(p, bytes, k), for a page address p whose page is erased
\* and 0 <= k <= FLASH_PAGE_SIZE, leaves the first k bytes of the page
\* equal to the input and the rest of the page 0xFF, leaves every byte
\* outside the page as it was, and issues no NVM command when k = 0 (one
\* page write otherwise).
C20_FlashWrite ==
    [][(pc = "flash_write" /\ pc' = "returned"
        /\ write_addr % FLASH_PAGE_SIZE = 0 /\ PageErased(flash, write_addr)
        /\ page_index \in 0..FLASH_PAGE_SIZE) =>
          /\ \A i \in 0..(page_index - 1) :
                 ReadByte(flash', write_addr + i) = page_buffer[i + 1]
          /\ \A i \in page_index..(FLASH_PAGE_SIZE - 1) :
                 ReadByte(flash', write_addr + i) = 255
          /\ \A a \in (write_addr - 2 * FLASH_ROW_SIZE)..(write_addr - 1) :
                 ReadByte(flash', a) = ReadByte(flash, a)
          /\ \A a \in (write_addr + FLASH_PAGE_SIZE)..(write_addr + 2 * FLASH_ROW_SIZE) :
                 ReadByte(flash', a) = ReadByte(flash, a)
          /\ flash'.base = flash.base /\ flash'.erased = flash.erased
          /\ \A a \in (DOMAIN flash.mem \cup DOMAIN flash'.mem) \ PageOf(write_addr) :
                 ReadByte(flash', a) = ReadByte(flash, a)
          /\ Len(nvm_wp') = (IF page_index = 0 THEN 0 ELSE 1)]_vars

\* part of a page has been programmed between two programmed pages: the
\* buffer held another byte where the page now reads 0xFF, and the pages
\* before and after it hold what they held
C20_Witness ==
    /\ pc = "returned" /\ page_index \in 1..(FLASH_PAGE_SIZE - 1)
    /\ Len(nvm_wp) = 1
    /\ page_buffer[page_index + 1] # 255
    /\ ReadByte(flash, write_addr + page_index) = 255
    /\ ReadByte(flash, write_addr + page_index - 1) = page_buffer[page_index]
    /\ ReadByte(flash, write_addr - 1) = 90
    /\ ReadByte(flash, write_addr + FLASH_PAGE_SIZE) = 165

(***************************************************************************)
(* flash_erase_range over its inputs: addresses at, next to and far from   *)
(* the row boundaries, the start of the application and the end of the     *)
(* flash, lengths from 0 to 0xFFFFFFFF, on the flash of a blank device, of *)
(* a device with an image, and of a blank device after ERASE APP and two   *)
(* blocks.  write_addr and write_length hold the two arguments.            *)
(***************************************************************************)
EraseAddrs ==
    {0, APP_START_ADDRESS, APP_START_ADDRESS + 1, APP_START_ADDRESS + FLASH_ROW_SIZE - 1,
     APP_START_ADDRESS + FLASH_ROW_SIZE, FLASH_SIZE - FLASH_ROW_SIZE, FLASH_SIZE - 1,
     FLASH_SIZE, FLASH_SIZE + 1, Mk(32768, 0), Mk(65535, 65280), Mk(65535, 65535)}

EraseLens ==
    {0, 1, 2, FLASH_ROW_SIZE - 1, FLASH_ROW_SIZE, FLASH_ROW_SIZE + 1, 2 * FLASH_ROW_SIZE,
     FLASH_SIZE, Mk(32768, 0), Mk(65535, 65280), Mk(65535, 65535)}

EraseFlashes ==
    PowerOnFlash \cup {ErasedPageFlash(ErasedFlash, APP_START_ADDRESS + FLASH_PAGE_SIZE)}

InitEraseRange ==
    /\ pc = "flash_erase_range"
    /\ parser_state = "WAIT_CMD"
    /\ cmd_index = 0
    /\ cmd_buffer = NUL
    /\ write_addr \in EraseAddrs
    /\ write_length \in EraseLens
    /\ write_expected_crc = 0
    /\ write_received = 0
    /\ crc_accum = 0
    /\ page_index = 0
    /\ page_buffer = Payload(<<0>>, FLASH_PAGE_SIZE)
    /\ sha_ctx = [iv |-> FALSE, msg |-> <<>>]
    /\ flash \in EraseFlashes
    /\ rx = <<>>
    /\ usb = UsbRam0
    /\ script = NoScript
    /\ out = <<>>
    /\ nvm_er = {}
    /\ nvm_wp = <<>>
    /\ calls = <<>>
    /\ last = [kind |-> "reset", c |-> 0, line |-> <<>>]
    /\ wire_line = <<>>
    /\ block_payload = <<>>
    /\ block_length = 0
    /\ typed = <<>>
    /\ pat = <<>>
    /\ sends = 0

\* flash_erase_range(write_addr, write_length)
EraseRangeCall ==
    /\ pc = "flash_erase_range"
    /\ \E rows \in {SeqRange(flash_erase_range(write_addr, write_length))} :
           /\ flash' = EraseRows(flash, rows)
           /\ nvm_er' = rows
    /\ pc' = "returned"
    /\ out' = <<>>
    /\ nvm_wp' = <<>>
    /\ calls' = <<"flash_erase_range">>
    /\ last' = [kind |-> "flash_erase_range", c |-> 0, line |-> <<>>]
    /\ UNCHANGED <<ram, rx, usbv, wire_line, block_payload, block_length, host>>

NextEraseRange == EraseRangeCall

SpecEraseRange == InitEraseRange /\ [][NextEraseRange]_vars

\* the rows of the flash
FlashRows == {k * FLASH_ROW_SIZE : k \in 0..((FLASH_SIZE \div FLASH_ROW_SIZE) - 1)}

\* the rows that overlap [a, min(a + n, FLASH_SIZE)), with a + n as the
\* number it is and not as the uint32_t sum
RowsOverlapping(a, n) ==
    IF n = 0 \/ ~Ult(a, FLASH_SIZE) THEN {}
    ELSE LET end == IF Ult(n, FLASH_SIZE) THEN Min(a + n, FLASH_SIZE) ELSE FLASH_SIZE
         IN  {r \in FlashRows : r < end /\ r + FLASH_ROW_SIZE > a}

\* the first bytes, a middle byte and the last byte of a row
RowSamples(r) == {r, r + 1, r + (FLASH_ROW_SIZE \div 2), r + FLASH_ROW_SIZE - 1}

\* C21: flash_erase_range(a, n) issues the erase command for exactly the
\* rows that overlap [a, min(a + n, FLASH_SIZE)), none of them at or above
\* FLASH_SIZE also when a + n overflows 32 bits, and none when n = 0;
\* afterwards the bytes of these rows read 0xFF and every other byte reads
\* what it read before.
C21_EraseRangeErasesOverlappingRows ==
    [][EraseRangeCall =>
         \E rows \in {RowsOverlapping(write_addr, write_length)} :
             /\ nvm_er' = rows
             /\ \A r \in nvm_er' : Ult(r, FLASH_SIZE)
             /\ write_length = 0 => nvm_er' = {}
             /\ flash'.base = flash.base
             /\ flash'.erased \ rows = flash.erased \ rows
             /\ \A a \in DOMAIN flash.mem :
                    IF AlignDown(a, FLASH_ROW_SIZE) \in rows
                    THEN a \notin DOMAIN flash'.mem
                    ELSE a \in DOMAIN flash'.mem /\ flash'.mem[a] = flash.mem[a]
             /\ DOMAIN flash'.mem \subseteq DOMAIN flash.mem
             /\ \A r \in FlashRows : \A a \in RowSamples(r) :
                    ReadByte(flash', a) = (IF r \in rows THEN 255 ELSE ReadByte(flash, a))
             /\ \A a \in {FLASH_SIZE, FLASH_SIZE + FLASH_ROW_SIZE - 1} :
                    ReadByte(flash', a) = ReadByte(flash, a)]_vars

\* an erase whose a + n overflows 32 bits has erased the last row of the
\* flash and no other
C21_Witness_OverflowingErase ==
    /\ pc = "returned"
    /\ calls = <<"flash_erase_range">>
    /\ write_addr = FLASH_SIZE - 1
    /\ write_length = Mk(65535, 65535)
    /\ nvm_er = {FLASH_SIZE - FLASH_ROW_SIZE}


(***************************************************************************)
(* crc32_update and crc32_finalize over byte sequences: crc_accum starts   *)
(* at 0xFFFFFFFF and takes the bytes of pat one at a time, as              *)
(* protocol_process_char feeds it the payload; block_payload holds the     *)
(* bytes taken.  The sequences are every sequence of up to MaxCrcLen bytes *)
(* of CrcBytes, the payload patterns, and the digits "123456789".          *)
(***************************************************************************)
MaxCrcLen == 2

CrcBytes == {0, 1, 2, 65, 127, 128, 254, 255}

CheckString == <<49, 50, 51, 52, 53, 54, 55, 56, 57>>

CrcMessages ==
    UNION {[1..n -> CrcBytes] : n \in 0..MaxCrcLen}
        \cup {CheckString, ReleaseImage, WordBytes(APP_VALID_MAGIC)}

InitCrc ==
    /\ pc = "crc32"
    /\ parser_state = "WRITE_DATA"
    /\ cmd_index = 0
    /\ cmd_buffer = NUL
    /\ write_addr = APP_START_ADDRESS
    /\ write_length = 0
    /\ write_expected_crc = 0
    /\ write_received = 0
    /\ crc_accum = -1
    /\ page_index = 0
    /\ page_buffer = Payload(<<0>>, FLASH_PAGE_SIZE)
    /\ sha_ctx = [iv |-> FALSE, msg |-> <<>>]
    /\ flash = ErasedFlash
    /\ rx = <<>>
    /\ usb = UsbRam0
    /\ script = NoScript
    /\ out = <<>>
    /\ nvm_er = {}
    /\ nvm_wp = <<>>
    /\ calls = <<>>
    /\ last = [kind |-> "reset", c |-> 0, line |-> <<>>]
    /\ wire_line = <<>>
    /\ block_payload = <<>>
    /\ block_length = 0
    /\ typed = <<>>
    /\ pat \in CrcMessages
    /\ sends = 0

\* crc_accum = crc32_update(crc_accum, c)
Crc32Step ==
    /\ pc = "crc32"
    /\ Len(block_payload) < Len(pat)
    /\ \E c \in {pat[Len(block_payload) + 1]} :
           /\ crc_accum' = crc32_update(crc_accum, c)
           /\ block_payload' = Append(block_payload, c)
           /\ last' = [kind |-> "crc32_update", c |-> c, line |-> <<>>]
    /\ UNCHANGED <<pc, parser_state, cmd_buffer, cmd_index, write_addr, write_length,
                   write_expected_crc, write_received, page_buffer, page_index, sha_ctx,
                   flash, rx, usbv, out, nvm_er, nvm_wp, calls, wire_line, block_length, host>>

NextCrc == Crc32Step

SpecCrc == InitCrc /\ [][NextCrc]_vars

\* The CRC-32 of IEEE 802.3 as the standard defines it: the bits of the
\* message, each byte least significant bit first, followed by 32 zero
\* bits, with the first 32 bits complemented, are divided by
\* G(x) = x^32 + x^26 + x^23 + x^22 + x^16 + x^12 + x^11 + x^10 + x^8 + x^7
\*        + x^5 + x^4 + x^2 + x + 1;
\* the complement of the remainder, its x^31 coefficient as bit 0, is the CRC.
GeneratorExponents == {26, 23, 22, 16, 12, 11, 10, 8, 7, 5, 4, 2, 1, 0}

\* bit i of the augmented message of q
MessageBit(q, i) ==
    LET b == IF i <= 8 * Len(q) THEN (q[((i - 1) \div 8) + 1] \div (2 ^ ((i - 1) % 8))) % 2 ELSE 0
    IN  IF i <= 32 THEN 1 - b ELSE b

\* one step of the long division: rem holds the coefficients of x^31 .. x^0
DivideStep(rem, bit) ==
    [k \in 1..32 |->
        LET shifted == IF k = 32 THEN bit ELSE rem[k + 1]
        IN  IF rem[1] = 1 /\ (32 - k) \in GeneratorExponents THEN 1 - shifted ELSE shifted]

RECURSIVE DivideBits(_, _, _, _)
DivideBits(rem, q, i, n) ==
    IF n = 0 THEN rem ELSE DivideBits(DivideStep(rem, MessageBit(q, i)), q, i + 1, n - 1)

\* the division, eight bits of the augmented message at a time
RECURSIVE DivideOctets(_, _, _)
DivideOctets(rem, q, o) ==
    IF o > Len(q) + 4 THEN rem
    ELSE CHOOSE r \in {DivideOctets(d, q, o + 1) :
                          d \in {DivideBits(rem, q, 8 * (o - 1) + 1, 8)}} : TRUE

RECURSIVE BitsValue(_, _, _)
BitsValue(bits, lo, hi) ==
    IF lo > hi THEN 0 ELSE bits[lo] + 2 * BitsValue(bits, lo + 1, hi)

Ieee8023Crc32(q) ==
    CHOOSE v \in {Mk(BitsValue(c, 17, 32), BitsValue(c, 1, 16)) :
                     c \in {[k \in 1..32 |-> 1 - r[k]] :
                               r \in {DivideOctets([k \in 1..32 |-> 0], q, 1)}}} : TRUE

\* C22: crc32_update folded over a byte sequence from 0xFFFFFFFF, followed
\* by crc32_finalize, is the CRC-32 of IEEE 802.3 of the sequence; for the
\* digits "123456789" it is 0xCBF43926.
C22_Crc32IsIeee8023 ==
    pc = "crc32" =>
        \E v \in {crc32_finalize(crc_accum)} :
            /\ v = Ieee8023Crc32(block_payload)
            /\ block_payload = CheckString => v = Mk(52212, 14630)      \* 0xCBF43926

\* the nine digits have been folded
C22_Witness_CheckString ==
    /\ pc = "crc32"
    /\ block_payload = CheckString
    /\ last.kind = "crc32_update"


(***************************************************************************)
(* The loader, just brought up, with a whole byte stream queued: a WRITE   *)
(* line for four bytes at 0x2000 and the payload "ABCD", with the CRC of   *)
(* the payload or with the CRC 0x8BB98613, alone or after ERASE APP, on a  *)
(* blank device, on a blank device after ERASE APP, and on one with the    *)
(* page after 0x2000 programmed.  In all of them the page at 0x2000 is     *)
(* erased.  typed holds the stream.                                        *)
(***************************************************************************)
T_0x8BB98613 == <<48, 120, 56, 66, 66, 57, 56, 54, 49, 51>>

ExampleStream(crc) == WriteLine(T_0x2000, T_4, crc) \o LF \o ReleaseImage

Streams ==
    {pre \o ExampleStream(crc) : pre \in {<<>>, ERASE_APP \o LF}, crc \in {T_crc4, T_0x8BB98613}}

StreamFlashes ==
    {[base |-> "blank", erased |-> {}, mem |-> <<>>], ErasedFlash,
     ErasedPageFlash(ErasedFlash, APP_START_ADDRESS)}

InitStream ==
    /\ pc = "loader"
    /\ parser_state = "WAIT_CMD"
    /\ cmd_index = 0
    /\ cmd_buffer = NUL
    /\ write_addr = 0
    /\ write_length = 0
    /\ write_expected_crc = 0
    /\ write_received = 0
    /\ crc_accum = -1
    /\ page_index = 0
    /\ page_buffer = <<>>
    /\ sha_ctx = crypto_sha256_init
    /\ flash \in StreamFlashes
    /\ rx \in Streams
    /\ typed = rx
    /\ usb = UsbRam0
    /\ script = NoScript
    /\ out = <<>>
    /\ nvm_er = {}
    /\ nvm_wp = <<>>
    /\ calls = <<"usb_init", "flash_init", "protocol_init">>
    /\ last = [kind |-> "boot", c |-> 0, line |-> <<>>]
    /\ wire_line = <<>>
    /\ block_payload = <<>>
    /\ block_length = 0
    /\ pat = <<>>
    /\ sends = 0

NextStream == MainLoop

SpecStream == InitStream /\ [][NextStream]_vars

\* the stream ends with the example and the loader has taken all of it
StreamTaken(crc) ==
    /\ pc = "loader"
    /\ rx = <<>>
    /\ \E pre \in {<<>>, ERASE_APP \o LF} : typed = pre \o ExampleStream(crc)

\* the reply to the last byte is OK WRITE, "ABCD" is at 0x2000 and the rest
\* of the page reads 0xFF
ExampleResult ==
    /\ out = <<OK_WRITE>>
    /\ \A i \in 1..4 : ReadByte(flash, APP_START_ADDRESS + i - 1) = ReleaseImage[i]
    /\ \A a \in (APP_START_ADDRESS + 4)..(APP_START_ADDRESS + FLASH_PAGE_SIZE - 1) :
           ReadByte(flash, a) = 255

\* C23: with the application at 0x2000 and the page at 0x2000 erased, the
\* stream "WRITE 0x2000 4 0xDB1720A5\nABCD" is answered OK WRITE, the bytes
\* 0x2000..0x2003 are "ABCD" and 0x2004..0x203F read 0xFF.
C23_ExampleWrite == StreamTaken(T_crc4) => ExampleResult

\* the stream of the example has been taken and answered
C23_Witness_ExampleTaken ==
    /\ StreamTaken(T_crc4)
    /\ out = <<OK_WRITE>>
    /\ nvm_wp # <<>>
    /\ APP_START_ADDRESS = 8192

\* C23 as stated: the stream "WRITE 0x2000 4 0x8BB98613\nABCD" is answered
\* OK WRITE, with "ABCD" at 0x2000 and 0xFF up to 0x203F.
C23_ExampleWriteAsStated == StreamTaken(T_0x8BB98613) => ExampleResult


(***************************************************************************)
(* crypto_sha256_init, crypto_sha256_update and crypto_sha256_final on the *)
(* context structure of crypto_ops.c: h, buffer[64], buffer_len and        *)
(* total_len.  The compression function is not computed: h is the initial  *)
(* state it started from (iv) and the 64-byte blocks given to              *)
(* crypto_sha256_process_block since, in order, and the digest is h.  Two  *)
(* runs that process the same blocks from the same initial state give the  *)
(* same digest.  The protocol's sha_ctx above is this context seen as the  *)
(* message hashed so far.                                                  *)
(***************************************************************************)
\* the static sha_ctx in .bss, and what memset leaves
Sha256CtxZero ==
    [h |-> [iv |-> FALSE, blocks |-> <<>>], buffer |-> [i \in 1..64 |-> 0],
     buffer_len |-> 0, total_len |-> 0]

crypto_sha256_process_block(h, block) == [h EXCEPT !.blocks = Append(@, block)]

\* crypto_sha256_init
Sha256CtxInit(ctx) ==
    [ctx EXCEPT !.h = [iv |-> TRUE, blocks |-> <<>>], !.buffer_len = 0, !.total_len = 0]

\* the blocks the while loop of crypto_sha256_update processes straight
\* from data, from offset on
DirectBlocks(data, offset, n) ==
    [k \in 1..n |-> SubSeq(data, offset + 64 * (k - 1) + 1, offset + 64 * k)]

\* a variant of crypto_sha256_update whose last memcpy copies from the start
\* of data instead of data[offset]
Sha256CtxUpdateTailFromStart(ctx, data) ==
    IF Len(data) = 0 THEN ctx
    ELSE LET space   == 64 - ctx.buffer_len
             take    == IF ctx.buffer_len > 0 THEN Min(Len(data), space) ELSE 0
             buf1    == [i \in 1..64 |->
                            IF i > ctx.buffer_len /\ i <= ctx.buffer_len + take
                            THEN data[i - ctx.buffer_len] ELSE ctx.buffer[i]]
             flush   == ctx.buffer_len > 0 /\ ctx.buffer_len + take = 64
             h1      == IF flush THEN crypto_sha256_process_block(ctx.h, buf1) ELSE ctx.h
             blen1   == IF flush THEN 0 ELSE ctx.buffer_len + take
             n       == (Len(data) - take) \div 64
             h2      == [h1 EXCEPT !.blocks = @ \o DirectBlocks(data, take, n)]
             len2    == Len(data) - take - 64 * n
         IN  [h |-> h2,
              buffer |-> IF len2 > 0
                         THEN [i \in 1..64 |-> IF i <= len2 THEN data[i] ELSE buf1[i]]
                         ELSE buf1,
              buffer_len |-> IF len2 > 0 THEN len2 ELSE blen1,
              total_len |-> ctx.total_len + Len(data)]

\* a variant of crypto_sha256_update that leaves buffer_len at 64 after the
\* full buffer was processed
Sha256CtxUpdateKeepsFull(ctx, data) ==
    IF Len(data) = 0 THEN ctx
    ELSE LET space   == 64 - ctx.buffer_len
             take    == IF ctx.buffer_len > 0 THEN Min(Len(data), space) ELSE 0
             buf1    == [i \in 1..64 |->
                            IF i > ctx.buffer_len /\ i <= ctx.buffer_len + take
                            THEN data[i - ctx.buffer_len] ELSE ctx.buffer[i]]
             flush   == ctx.buffer_len > 0 /\ ctx.buffer_len + take = 64
             h1      == IF flush THEN crypto_sha256_process_block(ctx.h, buf1) ELSE ctx.h
             n       == (Len(data) - take) \div 64
             h2      == [h1 EXCEPT !.blocks = @ \o DirectBlocks(data, take, n)]
             offset  == take + 64 * n
             len2    == Len(data) - offset
         IN  [h |-> h2,
              buffer |-> IF len2 > 0
                         THEN [i \in 1..64 |-> IF i <= len2 THEN data[offset + i] ELSE buf1[i]]
                         ELSE buf1,
              buffer_len |-> IF len2 > 0 THEN len2 ELSE ctx.buffer_len + take,
              total_len |-> ctx.total_len + Len(data)]

\* crypto_sha256_update(data, len)
Sha256CtxUpdate(ctx, data) ==
    IF Len(data) = 0 THEN ctx
    ELSE LET space   == 64 - ctx.buffer_len
             take    == IF ctx.buffer_len > 0 THEN Min(Len(data), space) ELSE 0
             buf1    == [i \in 1..64 |->
                            IF i > ctx.buffer_len /\ i <= ctx.buffer_len + take
                            THEN data[i - ctx.buffer_len] ELSE ctx.buffer[i]]
             flush   == ctx.buffer_len > 0 /\ ctx.buffer_len + take = 64
             h1      == IF flush THEN crypto_sha256_process_block(ctx.h, buf1) ELSE ctx.h
             blen1   == IF flush THEN 0 ELSE ctx.buffer_len + take
             n       == (Len(data) - take) \div 64
             h2      == [h1 EXCEPT !.blocks = @ \o DirectBlocks(data, take, n)]
             offset  == take + 64 * n
             len2    == Len(data) - offset
         IN  [h |-> h2,
              buffer |-> IF len2 > 0
                         THEN [i \in 1..64 |-> IF i <= len2 THEN data[offset + i] ELSE buf1[i]]
                         ELSE buf1,
              buffer_len |-> IF len2 > 0 THEN len2 ELSE blen1,
              total_len |-> ctx.total_len + Len(data)]

\* the eight bytes of bit_len, most significant first (bit_len < 2^31 here)
BitLenBytes(bit_len) ==
    [i \in 1..8 |-> IF i <= 4 THEN 0 ELSE (bit_len \div (256 ^ (8 - i))) % 256]

\* crypto_sha256_final(digest): the digest and the context it leaves
Sha256CtxFinal(ctx) ==
    LET bit_len == ctx.total_len * 8
        pad1    == ctx.buffer_len + 1
        padded  == [i \in 1..64 |-> IF i <= ctx.buffer_len THEN ctx.buffer[i]
                                    ELSE IF i = pad1 THEN 128 ELSE 0]
        h1      == IF pad1 > 56 THEN crypto_sha256_process_block(ctx.h, padded) ELSE ctx.h
        lastblk == [i \in 1..64 |-> IF i > 56 THEN BitLenBytes(bit_len)[i - 56]
                                    ELSE IF pad1 > 56 THEN 0 ELSE padded[i]]
    IN  [digest |-> crypto_sha256_process_block(h1, lastblk), ctx |-> Sha256CtxZero]

(***************************************************************************)
(* The three functions over messages and the ways to cut them: pat is the  *)
(* message, block_payload the bytes given to crypto_sha256_update so far,  *)
(* in chunks of the lengths of ChunkLens or all that is left; then         *)
(* crypto_sha256_final writes the digest (out).                            *)
(***************************************************************************)
ShaLens == {0, 1, 55, 56, 57, 63, 64, 65, 119, 120, 128, 130}

ChunkLens == {1, 2, 55, 63, 64, 65, 128}

\* a message of n bytes with no period below 256
ShaMessage(n) == [i \in 1..n |-> (i * 37 + 11) % 256]

InitSha ==
    /\ pc = "sha256"
    /\ parser_state = "WRITE_DATA"
    /\ cmd_index = 0
    /\ cmd_buffer = NUL
    /\ write_addr = APP_START_ADDRESS
    /\ write_length = 0
    /\ write_expected_crc = 0
    /\ write_received = 0
    /\ crc_accum = -1
    /\ page_index = 0
    /\ page_buffer = <<>>
    /\ sha_ctx = Sha256CtxInit(Sha256CtxZero)
    /\ flash = ErasedFlash
    /\ rx = <<>>
    /\ usb = UsbRam0
    /\ script = NoScript
    /\ out = <<>>
    /\ nvm_er = {}
    /\ nvm_wp = <<>>
    /\ calls = <<"crypto_sha256_init">>
    /\ last = [kind |-> "crypto_sha256_init", c |-> 0, line |-> <<>>]
    /\ wire_line = <<>>
    /\ block_payload = <<>>
    /\ block_length = 0
    /\ typed = <<>>
    /\ pat \in {ShaMessage(n) : n \in ShaLens}
    /\ sends = 0

\* crypto_sha256_update(data, len) with the next len bytes of the message
ShaUpdate ==
    /\ pc = "sha256"
    /\ \E len \in ChunkLens \cup {Len(pat) - Len(block_payload)} :
           /\ Len(block_payload) + len <= Len(pat)
           /\ \E data \in {SubSeq(pat, Len(block_payload) + 1, Len(block_payload) + len)} :
                  /\ sha_ctx' = Sha256CtxUpdate(sha_ctx, data)
                  /\ block_payload' = block_payload \o data
                  /\ block_length' = len
    /\ calls' = <<"crypto_sha256_update">>
    /\ last' = [kind |-> "crypto_sha256_update", c |-> 0, line |-> <<>>]
    /\ UNCHANGED <<pc, parser_state, cmd_buffer, cmd_index, write_addr, write_length,
                   write_expected_crc, write_received, crc_accum, page_buffer, page_index,
                   flash, rx, usbv, out, nvm_er, nvm_wp, wire_line, host>>

\* crypto_sha256_final(digest) once the whole message is in
ShaFinal ==
    /\ pc = "sha256"
    /\ block_payload = pat
    /\ \E r \in {Sha256CtxFinal(sha_ctx)} :
           /\ out' = <<r.digest>>
           /\ sha_ctx' = r.ctx
    /\ pc' = "returned"
    /\ calls' = <<"crypto_sha256_final">>
    /\ last' = [kind |-> "crypto_sha256_final", c |-> 0, line |-> <<>>]
    /\ UNCHANGED <<parser_state, cmd_buffer, cmd_index, write_addr, write_length,
                   write_expected_crc, write_received, crc_accum, page_buffer, page_index,
                   flash, rx, usbv, nvm_er, nvm_wp, wire_line, block_payload, block_length,
                   host>>

NextSha == ShaUpdate \/ ShaFinal

SpecSha == InitSha /\ [][NextSha]_vars

\* what of the context the functions read: h, buffer[0 .. buffer_len) and
\* total_len
Effective(ctx) ==
    [h |-> ctx.h, pending |-> SubSeq(ctx.buffer, 1, ctx.buffer_len), total_len |-> ctx.total_len]

\* init; update(s)
OneShot(s) == Sha256CtxUpdate(Sha256CtxInit(Sha256CtxZero), s)

\* the message padded as FIPS 180-4 pads it: 0x80, zeros up to 56 modulo 64,
\* the length in bits on eight bytes; cut in blocks of 64 bytes
PaddedBlocks(s) ==
    LET zeros == (119 - (Len(s) % 64)) % 64
        m     == s \o <<128>> \o [i \in 1..zeros |-> 0] \o BitLenBytes(8 * Len(s))
    IN  [k \in 1..(Len(m) \div 64) |-> SubSeq(m, 64 * (k - 1) + 1, 64 * k)]

\* C24: however the message is cut into crypto_sha256_update calls, byte
\* at a time included, the context holds what one update with all the bytes
\* given so far leaves, and the digest crypto_sha256_final writes is the
\* digest of init, one update with the whole message, final: the hash of
\* the padded message.
C24_Sha256Streaming ==
    /\ pc = "sha256" => Effective(sha_ctx) = Effective(OneShot(block_payload))
    /\ (pc = "returned" /\ calls = <<"crypto_sha256_final">>) =>
           \E d \in {Sha256CtxFinal(OneShot(pat)).digest} :
               /\ out = <<d>>
               /\ d = [iv |-> TRUE, blocks |-> PaddedBlocks(pat)]
               /\ sha_ctx = Sha256CtxZero

\* a message of 130 bytes given one byte at a time has been hashed
C24_Witness_ByteAtATime ==
    /\ pc = "returned"
    /\ calls = <<"crypto_sha256_final">>
    /\ Len(pat) = 130
    /\ block_length = 1
    /\ Len(out[1].blocks) = 3


(***************************************************************************)
(* sc_check over scalars: the group order SC_L, SC_L with one byte one     *)
(* higher or one lower, zero and 2^256 - 1.  pat holds the 32 bytes of s,  *)
(* least significant first; out takes the value returned.                  *)
(***************************************************************************)
Scalars ==
    {SC_L, [i \in 1..32 |-> 0], [i \in 1..32 |-> 255]}
        \cup {[SC_L EXCEPT ![i] = @ + 1] : i \in {k \in 1..32 : SC_L[k] < 255}}
        \cup {[SC_L EXCEPT ![i] = @ - 1] : i \in {k \in 1..32 : SC_L[k] > 0}}
        \cup {[SC_L EXCEPT ![i] = @ + 1, ![j] = @ - 1] : i \in {1, 16, 32}, j \in {2, 15}}

InitScCheck ==
    /\ pc = "sc_check"
    /\ parser_state = "WAIT_CMD"
    /\ cmd_index = 0
    /\ cmd_buffer = NUL
    /\ write_addr = 0
    /\ write_length = 0
    /\ write_expected_crc = 0
    /\ write_received = 0
    /\ crc_accum = -1
    /\ page_index = 0
    /\ page_buffer = <<>>
    /\ sha_ctx = [iv |-> FALSE, msg |-> <<>>]
    /\ flash = ErasedFlash
    /\ rx = <<>>
    /\ usb = UsbRam0
    /\ script = NoScript
    /\ out = <<>>
    /\ nvm_er = {}
    /\ nvm_wp = <<>>
    /\ calls = <<>>
    /\ last = [kind |-> "reset", c |-> 0, line |-> <<>>]
    /\ wire_line = <<>>
    /\ block_payload = <<>>
    /\ block_length = 0
    /\ typed = <<>>
    /\ pat \in Scalars
    /\ sends = 0

\* sc_check(s)
ScCheckCall ==
    /\ pc = "sc_check"
    /\ pc' = "returned"
    /\ out' = <<sc_check(pat)>>
    /\ calls' = <<"sc_check">>
    /\ last' = [kind |-> "sc_check", c |-> 0, line |-> <<>>]
    /\ UNCHANGED <<ram, flash, rx, usbv, nvm_er, nvm_wp, wire_line, block_payload,
                   block_length, host>>

NextScCheck == ScCheckCall

SpecScCheck == InitScCheck /\ [][NextScCheck]_vars

\* s >= t for 32-byte little-endian integers: at the most significant byte
\* where they differ, s has the larger one
ScalarGe(s, t) ==
    \/ s = t
    \/ \E i \in 1..32 : s[i] > t[i] /\ \A j \in (i + 1)..32 : s[j] = t[j]

\* C26: sc_check(s) returns nonzero if and only if s >= SC_L.
C26_ScCheckFromL ==
    (pc = "returned" /\ calls = <<"sc_check">>) => (out[1] # 0 <=> ScalarGe(pat, SC_L))

\* C30: every call of protocol_process_char leaves cmd_index <= CMD_BUF_SIZE - 1
\* and the NUL at cmd_buffer[cmd_index]; a character other than CR and LF that
\* arrives in WAIT_CMD with cmd_index = CMD_BUF_SIZE - 1 empties the buffer and
\* is answered by nothing; after every LF the buffer is empty.
C30_CommandBufferBounded ==
    [][TakeByte =>
        /\ cmd_index' <= CMD_BUF_SIZE - 1
        /\ Len(cmd_buffer') = cmd_index' + 1
        /\ cmd_buffer'[cmd_index' + 1] = 0
        /\ (parser_state = "WAIT_CMD" /\ Head(rx) \notin {13, 10} /\ cmd_index = CMD_BUF_SIZE - 1)
               => (cmd_index' = 0 /\ cmd_buffer' = NUL /\ out' = <<>>)
        /\ Head(rx) = 10 => (cmd_index' = 0 /\ cmd_buffer' = NUL)]_vars

\* the 128th character of a line has just emptied the full buffer
C30_Witness_OverflowReset ==
    /\ last.kind = "text"
    /\ Len(wire_line) = CMD_BUF_SIZE
    /\ cmd_index = 0 /\ cmd_buffer = NUL
    /\ out = <<>>

(***************************************************************************)
(* Over-long command lines: the loader after protocol_init takes in a line *)
(* of CMD_BUF_SIZE - 1 characters or more and its LF.                      *)
(***************************************************************************)
\* n times "X"
Fill(n) == SubSeq([i \in 1..(2 * CMD_BUF_SIZE) |-> 88], 1, n)

LongTails == {HELLO, ERASE_APP, WriteLine(T_0x2000, T_4, T_crc4), <<70, 79, 79>>, DONE_, <<>>}

LongLines ==
    {Fill(n) \o t : n \in {CMD_BUF_SIZE - 2, CMD_BUF_SIZE - 1, CMD_BUF_SIZE, 2 * CMD_BUF_SIZE},
                    t \in LongTails}

InitLong ==
    /\ pc = "loader"
    /\ parser_state = "WAIT_CMD"
    /\ cmd_index = 0
    /\ cmd_buffer = NUL
    /\ write_addr = 0
    /\ write_length = 0
    /\ write_expected_crc = 0
    /\ write_received = 0
    /\ crc_accum = -1
    /\ page_index = 0
    /\ page_buffer = <<>>
    /\ sha_ctx = crypto_sha256_init
    /\ flash \in PowerOnFlash
    /\ \E l \in LongLines : rx = l \o LF
    /\ typed = rx
    /\ usb = UsbRam0
    /\ script = NoScript
    /\ out = <<>>
    /\ nvm_er = {}
    /\ nvm_wp = <<>>
    /\ calls = <<"usb_init", "flash_init", "protocol_init">>
    /\ last = [kind |-> "boot", c |-> 0, line |-> <<>>]
    /\ wire_line = <<>>
    /\ block_payload = <<>>
    /\ block_length = 0
    /\ pat = <<>>
    /\ sends = 0

NextLong == MainLoop

SpecLong == InitLong /\ [][NextLong]_vars

\* What cmd_buffer holds of a line without CR when its LF arrives: every
\* CMD_BUF_SIZE-th character empties the buffer and is dropped itself.
Kept(line) == SubSeq(line, CMD_BUF_SIZE * (Len(line) \div CMD_BUF_SIZE) + 1, Len(line))

\* no reply of the last call begins "OK"
NoOkReply == \A i \in 1..Len(out) : ~BeginsWith(out[i], <<79, 75>>)

\* C29: a line of CMD_BUF_SIZE characters or more is not dispatched as a
\* whole; what follows its last buffer reset is dispatched as a line of its
\* own: HELLO is answered OK BOOT, ERASE APP erases the application and is
\* answered OK ERASE, a WRITE line opens its write transaction, and any other
\* remainder causes no flash command and no OK reply.
C29_OverLongLineDispatchesRemainder ==
    (Dispatched /\ Len(last.line) > CMD_BUF_SIZE - 1) =>
        \E k \in {Kept(last.line)} :
            /\ k = HELLO => out = <<BootReply(BOOT_VERSION_MAJOR, BOOT_VERSION_MINOR)>>
            /\ k = ERASE_APP => (out = <<OK_ERASE>> /\ nvm_er = flash_erase_application)
            /\ k = WriteLine(T_0x2000, T_4, T_crc4) =>
                   /\ parser_state = "WRITE_DATA" /\ out = <<>>
                   /\ write_addr = APP_START_ADDRESS /\ write_length = 4
            /\ (k # HELLO /\ k # ERASE_APP /\ ~BeginsWith(k, WRITE_)) =>
                   (NoFlashMutation /\ parser_state = "WAIT_CMD" /\ NoOkReply)

\* 128 filler characters and ERASE APP have erased the application
C29_Witness_TailErases ==
    /\ Dispatched
    /\ last.line = Fill(CMD_BUF_SIZE) \o ERASE_APP
    /\ out = <<OK_ERASE>>
    /\ nvm_er = flash_erase_application

\* C29 as stated: a line longer than CMD_BUF_SIZE - 1 characters causes no
\* flash erase, no write transaction and no OK reply.
C29_OverLongLineHasNoEffect ==
    (Dispatched /\ Len(last.line) > CMD_BUF_SIZE - 1) =>
        (NoFlashMutation /\ parser_state = "WAIT_CMD" /\ NoOkReply)

(***************************************************************************)
(* crypto_sha256_process_block computed word by word.  The context is      *)
(* [h, w, v, todo]: the chaining words, the message schedule as far as it  *)
(* is filled, the working variables a .. h during the rounds (<<>> before) *)
(* and the padded blocks that follow the current one.  pat is the message. *)
(***************************************************************************)
RECURSIVE AndBits(_, _, _)
AndBits(a, b, n) ==
    IF n = 0 THEN 0
    ELSE ((a % 2) * (b % 2)) + 2 * AndBits(a \div 2, b \div 2, n - 1)

And32(a, b) == Mk(AndBits(Hi(a), Hi(b), 16), AndBits(Lo(a), Lo(b), 16))
Not32(a) == Mk(65535 - Hi(a), 65535 - Lo(a))

\* the halves hi, lo rotated right by n bits, 0 < n < 16
RotrHalves(hi, lo, n) ==
    Mk((hi \div (2 ^ n)) + (lo % (2 ^ n)) * (2 ^ (16 - n)),
       (lo \div (2 ^ n)) + (hi % (2 ^ n)) * (2 ^ (16 - n)))

\* ((x) >> (n)) | ((x) << (32 - (n))), 0 < n < 32
ROTR32(x, n) ==
    IF n < 16 THEN RotrHalves(Hi(x), Lo(x), n)
    ELSE IF n = 16 THEN Mk(Lo(x), Hi(x))
    ELSE RotrHalves(Lo(x), Hi(x), n - 16)

\* x >> n, 0 < n < 16
Shr32(x, n) ==
    Mk(Hi(x) \div (2 ^ n), (Lo(x) \div (2 ^ n)) + (Hi(x) % (2 ^ n)) * (2 ^ (16 - n)))

CH(x, y, z) == Xor32(And32(x, y), And32(Not32(x), z))
MAJ(x, y, z) == Xor32(Xor32(And32(x, y), And32(x, z)), And32(y, z))
EP0(x) == Xor32(Xor32(ROTR32(x, 2), ROTR32(x, 13)), ROTR32(x, 22))
EP1(x) == Xor32(Xor32(ROTR32(x, 6), ROTR32(x, 11)), ROTR32(x, 25))
SIG0(x) == Xor32(Xor32(ROTR32(x, 7), ROTR32(x, 18)), Shr32(x, 3))
SIG1(x) == Xor32(Xor32(ROTR32(x, 17), ROTR32(x, 19)), Shr32(x, 10))

sha256_initial_state ==
    <<Mk(27145, 58983), Mk(47975, 44677), Mk(15470, 62322), Mk(42319, 62778),   \* 6A09E667 BB67AE85 3C6EF372 A54FF53A
      Mk(20750, 21119), Mk(39685, 26764), Mk(8067, 55723), Mk(23520, 52505)>>   \* 510E527F 9B05688C 1F83D9AB 5BE0CD19

sha256_k ==
    <<Mk(17034, 12184), Mk(28983, 17553), Mk(46528, 64463), Mk(59829, 56229),   \* 428A2F98 71374491 B5C0FBCF E9B5DBA5
      Mk(14678, 49755), Mk(23025, 4593), Mk(37439, 33444), Mk(43804, 24277),   \* 3956C25B 59F111F1 923F82A4 AB1C5ED5
      Mk(55303, 43672), Mk(4739, 23297), Mk(9265, 34238), Mk(21772, 32195),   \* D807AA98 12835B01 243185BE 550C7DC3
      Mk(29374, 23924), Mk(32990, 45566), Mk(39900, 1703), Mk(49563, 61812),   \* 72BE5D74 80DEB1FE 9BDC06A7 C19BF174
      Mk(58523, 27073), Mk(61374, 18310), Mk(4033, 40390), Mk(9228, 41420),   \* E49B69C1 EFBE4786 0FC19DC6 240CA1CC
      Mk(11753, 11375), Mk(19060, 33962), Mk(23728, 43484), Mk(30457, 35034),   \* 2DE92C6F 4A7484AA 5CB0A9DC 76F988DA
      Mk(38974, 20818), Mk(43057, 50797), Mk(45059, 10184), Mk(48985, 32711),   \* 983E5152 A831C66D B00327C8 BF597FC7
      Mk(50912, 3059), Mk(54695, 37191), Mk(1738, 25425), Mk(5161, 10599),   \* C6E00BF3 D5A79147 06CA6351 14292967
      Mk(10167, 2693), Mk(11803, 8504), Mk(19756, 28156), Mk(21304, 3347),   \* 27B70A85 2E1B2138 4D2C6DFC 53380D13
      Mk(25866, 29524), Mk(30314, 2747), Mk(33218, 51502), Mk(37490, 11397),   \* 650A7354 766A0ABB 81C2C92E 92722C85
      Mk(41663, 59553), Mk(43034, 26187), Mk(49739, 35696), Mk(51052, 20899),   \* A2BFE8A1 A81A664B C24B8B70 C76C51A3
      Mk(53650, 59417), Mk(54937, 1572), Mk(62478, 13701), Mk(4202, 41072),   \* D192E819 D6990624 F40E3585 106AA070
      Mk(6564, 49430), Mk(7735, 27656), Mk(10056, 30540), Mk(13488, 48309),   \* 19A4C116 1E376C08 2748774C 34B0BCB5
      Mk(14620, 3251), Mk(20184, 43594), Mk(23452, 51791), Mk(26670, 28659),   \* 391C0CB3 4ED8AA4A 5B9CCA4F 682E6FF3
      Mk(29839, 33518), Mk(30885, 25455), Mk(33992, 30740), Mk(36039, 520),   \* 748F82EE 78A5636F 84C87814 8CC70208
      Mk(37054, 65529), Mk(42064, 27883), Mk(48889, 41975), Mk(50801, 30962)>>   \* 90BEFFF9 A4506CEB BEF9A3F7 C67178F2

\* w[0 .. 15]: the block's bytes as big-endian words
BlockWords(block) ==
    [i \in 1..16 |-> Mk(block[4 * i - 3] * 256 + block[4 * i - 2],
                        block[4 * i - 1] * 256 + block[4 * i])]

\* the four bytes of a word, most significant first
WordBytesBE(x) == <<Hi(x) \div 256, Hi(x) % 256, Lo(x) \div 256, Lo(x) % 256>>

\* the context on entry to crypto_sha256_process_block(blocks[1])
BlockEntry(h, blocks) ==
    [h |-> h, w |-> BlockWords(blocks[1]), v |-> <<>>, todo |-> Tail(blocks)]

\* messages of one block and of two (with their padding)
KatMessages ==
    {<<>>, <<97, 98, 99>>, ReleaseImage,
     <<97, 98, 99, 100, 98, 99, 100, 101, 99, 100, 101, 102, 100, 101, 102, 103,
       101, 102, 103, 104, 102, 103, 104, 105, 103, 104, 105, 106, 104, 105, 106, 107,
       105, 106, 107, 108, 106, 107, 108, 109, 107, 108, 109, 110, 108, 109, 110, 111,
       109, 110, 111, 112, 110, 111, 112, 113>>}

InitBlock ==
    /\ pc = "sha256_block"
    /\ parser_state = "WAIT_CMD"
    /\ cmd_index = 0
    /\ cmd_buffer = NUL
    /\ write_addr = 0
    /\ write_length = 0
    /\ write_expected_crc = 0
    /\ write_received = 0
    /\ crc_accum = -1
    /\ page_index = 0
    /\ page_buffer = <<>>
    /\ pat \in KatMessages
    /\ sha_ctx = BlockEntry(sha256_initial_state, PaddedBlocks(pat))
    /\ flash = ErasedFlash
    /\ rx = <<>>
    /\ usb = UsbRam0
    /\ script = NoScript
    /\ out = <<>>
    /\ nvm_er = {}
    /\ nvm_wp = <<>>
    /\ calls = <<"crypto_sha256_final">>
    /\ last = [kind |-> "crypto_sha256_process_block", c |-> 0, line |-> <<>>]
    /\ wire_line = <<>>
    /\ block_payload = pat
    /\ block_length = 0
    /\ typed = <<>>
    /\ sends = 0

BlockFrame ==
    UNCHANGED <<parser_state, cmd_buffer, cmd_index, write_addr, write_length,
                write_expected_crc, write_received, crc_accum, page_buffer, page_index,
                flash, rx, usbv, nvm_er, nvm_wp, calls, last, wire_line, block_payload,
                block_length, host>>

\* for (i = 16; i < 64; i++) w[i] = SIG1(w[i-2]) + w[i-7] + SIG0(w[i-15]) + w[i-16]
ShaSchedule ==
    /\ pc = "sha256_block"
    /\ Len(sha_ctx.w) < 64
    /\ \E w \in {sha_ctx.w}, n \in {Len(sha_ctx.w) + 1} :
          sha_ctx' = [sha_ctx EXCEPT !.w =
              Append(w, Add32(Add32(Add32(SIG1(w[n - 2]), w[n - 7]), SIG0(w[n - 15])), w[n - 16]))]
    /\ UNCHANGED <<pc, out>>
    /\ BlockFrame

\* a = sha_ctx.h[0]; ... h = sha_ctx.h[7], and the i-th pass of the round loop
ShaRound ==
    /\ pc = "sha256_block"
    /\ Len(sha_ctx.w) = 64
    /\ page_index < 64
    /\ \E v \in {IF page_index = 0 THEN sha_ctx.h ELSE sha_ctx.v} :
       \E temp1 \in {Add32(Add32(Add32(Add32(v[8], EP1(v[5])), CH(v[5], v[6], v[7])),
                                 sha256_k[page_index + 1]), sha_ctx.w[page_index + 1])},
          temp2 \in {Add32(EP0(v[1]), MAJ(v[1], v[2], v[3]))} :
          sha_ctx' = [sha_ctx EXCEPT !.v =
              <<Add32(temp1, temp2), v[1], v[2], v[3], Add32(v[4], temp1), v[5], v[6], v[7]>>]
    /\ page_index' = page_index + 1
    /\ UNCHANGED <<pc, out>>
    /\ UNCHANGED <<parser_state, cmd_buffer, cmd_index, write_addr, write_length,
                   write_expected_crc, write_received, crc_accum, page_buffer,
                   flash, rx, usbv, nvm_er, nvm_wp, calls, last, wire_line, block_payload,
                   block_length, host>>

\* sha_ctx.h[0] += a; ... sha_ctx.h[7] += h; then the next block, or the
\* digest bytes crypto_sha256_final writes from h
ShaBlockEnd ==
    /\ pc = "sha256_block"
    /\ Len(sha_ctx.w) = 64
    /\ page_index = 64
    /\ \E h \in {<<Add32(sha_ctx.h[1], sha_ctx.v[1]), Add32(sha_ctx.h[2], sha_ctx.v[2]),
                   Add32(sha_ctx.h[3], sha_ctx.v[3]), Add32(sha_ctx.h[4], sha_ctx.v[4]),
                   Add32(sha_ctx.h[5], sha_ctx.v[5]), Add32(sha_ctx.h[6], sha_ctx.v[6]),
                   Add32(sha_ctx.h[7], sha_ctx.v[7]), Add32(sha_ctx.h[8], sha_ctx.v[8])>>} :
          IF sha_ctx.todo # <<>>
          THEN /\ sha_ctx' = BlockEntry(h, sha_ctx.todo)
               /\ UNCHANGED <<pc, out>>
          ELSE /\ sha_ctx' = [h |-> <<0, 0, 0, 0, 0, 0, 0, 0>>, w |-> <<>>, v |-> <<>>,
                               todo |-> <<>>]                 \* memset(&sha_ctx, 0, ..)
               /\ out' = <<WordBytesBE(h[1]) \o WordBytesBE(h[2]) \o WordBytesBE(h[3])
                           \o WordBytesBE(h[4]) \o WordBytesBE(h[5]) \o WordBytesBE(h[6])
                           \o WordBytesBE(h[7]) \o WordBytesBE(h[8])>>
               /\ pc' = "returned"
    /\ page_index' = 0
    /\ UNCHANGED <<parser_state, cmd_buffer, cmd_index, write_addr, write_length,
                   write_expected_crc, write_received, crc_accum, page_buffer,
                   flash, rx, usbv, nvm_er, nvm_wp, calls, last, wire_line, block_payload,
                   block_length, host>>

NextBlock == ShaSchedule \/ ShaRound \/ ShaBlockEnd

SpecBlock == InitBlock /\ [][NextBlock]_vars

\* SHA-256 of the messages of KatMessages: FIPS 180-4 and its examples
\* ("abc" and the 448-bit message), the empty message and "ABCD"
Sha256Of(m) ==
    IF m = <<>>
    THEN <<227, 176, 196, 66, 152, 252, 28, 20, 154, 251, 244, 200, 153, 111, 185, 36,
           39, 174, 65, 228, 100, 155, 147, 76, 164, 149, 153, 27, 120, 82, 184, 85>>
    ELSE IF m = <<97, 98, 99>>
    THEN <<186, 120, 22, 191, 143, 1, 207, 234, 65, 65, 64, 222, 93, 174, 34, 35,
           176, 3, 97, 163, 150, 23, 122, 156, 180, 16, 255, 97, 242, 0, 21, 173>>
    ELSE IF m = ReleaseImage
    THEN <<225, 46, 17, 90, 207, 69, 82, 178, 86, 139, 85, 233, 60, 189, 57, 57,
           76, 78, 248, 28, 130, 68, 127, 175, 201, 151, 136, 42, 2, 210, 54, 119>>
    ELSE <<36, 141, 106, 97, 210, 6, 56, 184, 229, 192, 38, 147, 12, 62, 96, 57,
           163, 60, 228, 89, 100, 255, 33, 103, 246, 236, 237, 212, 25, 219, 6, 193>>

Rfc8032Test1Key ==
    <<215, 90, 152, 1, 130, 177, 10, 183, 213, 75, 254, 211, 201, 100, 7, 58,
      14, 225, 114, 243, 218, 166, 35, 37, 175, 2, 26, 104, 247, 7, 81, 26>>

\* SHA-256 of "abc" (FIPS 180-4)
VectorHash ==
    <<186, 120, 22, 191, 143, 1, 207, 234, 65, 65, 64, 222, 93, 174, 34, 35,
      176, 3, 97, 163, 150, 23, 122, 156, 180, 16, 255, 97, 242, 0, 21, 173>>

\* the Ed25519 signature (RFC 8032 5.1.6) of VectorHash under the private key
\* of TEST 1, 9d61b19d .. 1cae7f60
VectorSignature ==
    <<9, 111, 85, 105, 216, 7, 238, 138, 199, 177, 145, 61, 167, 12, 240, 170,
      179, 53, 194, 88, 244, 185, 76, 143, 33, 13, 209, 65, 233, 116, 57, 39,
      200, 209, 166, 179, 120, 135, 42, 114, 201, 68, 108, 31, 117, 230, 220, 123,
      45, 239, 152, 189, 12, 33, 75, 230, 112, 109, 72, 121, 31, 87, 104, 10>>

\* the triples (public key, signature, hash) known to be valid
ValidVectors == {<<Rfc8032Test1Key, VectorSignature, VectorHash>>}

\* bytes with bit b (0 is the lowest bit of the first byte) flipped
FlipBit(bytes, b) ==
    [bytes EXCEPT ![(b \div 8) + 1] =
        IF (@ \div (2 ^ (b % 8))) % 2 = 1 THEN @ - 2 ^ (b % 8) ELSE @ + 2 ^ (b % 8)]

SignatureFlips == {0, 255, 256, 508}
HashFlips == {0, 255}

VerifySignatures ==
    {VectorSignature, ReleaseSignature, [i \in 1..64 |-> 0]}
        \cup {FlipBit(VectorSignature, b) : b \in SignatureFlips}

VerifyHashes == {VectorHash} \cup {FlipBit(VectorHash, b) : b \in HashFlips}

InitVerify ==
    /\ pc = "crypto_ed25519_verify"
    /\ parser_state = "WAIT_CMD"
    /\ cmd_index = 0
    /\ cmd_buffer = NUL
    /\ write_addr = 0
    /\ write_length = 0
    /\ write_expected_crc = 0
    /\ write_received = 0
    /\ crc_accum = -1
    /\ page_index = 0
    /\ page_buffer = <<>>
    /\ sha_ctx = [iv |-> FALSE, msg |-> <<>>]
    /\ flash = ErasedFlash
    /\ rx = <<>>
    /\ usb = UsbRam0
    /\ script = NoScript
    /\ out = <<>>
    /\ nvm_er = {}
    /\ nvm_wp = <<>>
    /\ calls = <<>>
    /\ last = [kind |-> "reset", c |-> 0, line |-> <<>>]
    /\ wire_line = <<>>
    /\ block_length = 0
    /\ sends = 0
    /\ typed \in {ZK_PUBKEY, Rfc8032Test1Key}
    /\ pat \in VerifySignatures
    /\ block_payload \in VerifyHashes

VerifyFrame ==
    UNCHANGED <<parser_state, cmd_index, cmd_buffer, write_addr, write_length,
                write_expected_crc, write_received, crc_accum, page_index, page_buffer,
                flash, rx, usbv, nvm_er, nvm_wp, wire_line, block_payload, block_length,
                host, last>>

\* if (sc_check(signature + 32)) return false;
VerifyScCheck ==
    /\ pc = "crypto_ed25519_verify"
    /\ calls' = <<"crypto_ed25519_verify", "sc_check">>
    /\ IF sc_check(SubSeq(pat, 33, 64)) # 0
       THEN pc' = "returned" /\ out' = <<FALSE>>
       ELSE pc' = "GeLoad" /\ out' = out
    /\ UNCHANGED sha_ctx
    /\ VerifyFrame

\* ge_frombytes(&A, key): the bytes to p->Y
VerifyGeLoad ==
    /\ pc = "GeLoad"
    /\ sha_ctx' = GeLoad(typed)
    /\ pc' = "GeUV"
    /\ calls' = Append(calls, "ge_frombytes")
    /\ UNCHANGED out
    /\ VerifyFrame

\* u = y^2 - 1, v = d * y^2 + 1
VerifyGeUV ==
    /\ pc = "GeUV"
    /\ sha_ctx' = GeUV(sha_ctx)
    /\ pc' = "GeCube"
    /\ UNCHANGED <<out, calls>>
    /\ VerifyFrame

\* v_cube = v^3
VerifyGeCube ==
    /\ pc = "GeCube"
    /\ sha_ctx' = GeCube(sha_ctx)
    /\ pc' = "GeRoot"
    /\ UNCHANGED <<out, calls>>
    /\ VerifyFrame

\* x = fe51_pow22523(v_cube * u) * v_cube * u
VerifyGeRoot ==
    /\ pc = "GeRoot"
    /\ sha_ctx' = GeRoot(sha_ctx)
    /\ pc' = "GeTest"
    /\ UNCHANGED <<out, calls>>
    /\ VerifyFrame

\* the tests of x in ge_frombytes, its return into crypto_ed25519_verify and the
\* rest of that function
VerifyGeTest ==
    /\ pc = "GeTest"
    /\ \E A \in {GeSign(GeTest(sha_ctx))} :
        /\ sha_ctx' = A
        /\ out' = <<VerifyAfterKey(A, pat, block_payload)>>
    /\ pc' = "returned"
    /\ UNCHANGED calls
    /\ VerifyFrame

NextVerify ==
    \/ VerifyScCheck
    \/ VerifyGeLoad
    \/ VerifyGeUV
    \/ VerifyGeCube
    \/ VerifyGeRoot
    \/ VerifyGeTest

SpecVerify == InitVerify /\ [][NextVerify]_vars

\* the signature or the hash differs in one bit from those of a valid triple
\* with the same key
OneBitFlipped ==
    \E v \in ValidVectors :
        /\ typed = v[1]
        /\ \/ block_payload = v[3] /\ \E b \in 0..511 : pat = FlipBit(v[2], b)
           \/ pat = v[2] /\ \E b \in 0..255 : block_payload = FlipBit(v[3], b)

VerifyReturned == pc = "returned" /\ calls[1] = "crypto_ed25519_verify"

\* crypto_ed25519_verify returns false where ge_frombytes of the public key
\* returns -1, which it does for both keys
VerifyReturnsAtKey ==
    (VerifyReturned /\ Len(calls) = 3) => (sha_ctx.ret = -1 /\ out = <<FALSE>>)

LineState ==
    <<pc, parser_state, write_addr, write_length, write_expected_crc, write_received,
      crc_accum, page_buffer, page_index, sha_ctx, flash>>

\* C31 (amended): in WAIT_CMD every LF is answered by exactly one reply, except
\* the LF of an accepted WRITE line, which is answered by none; the empty line
\* is answered ERR UNKNOWN; CR changes nothing and any other character changes
\* the command buffer only, by being appended to it or, when the buffer holds
\* CMD_BUF_SIZE - 1 characters already, by emptying it; neither gets a reply.
C31_OneReplyPerLine ==
    [][(TakeByte /\ parser_state = "WAIT_CMD") =>
        \E c \in {Head(rx)} :
            /\ c = 10 =>
                /\ Len(out') = (IF parser_state' = "WRITE_DATA" THEN 0 ELSE 1)
                /\ cmd_index = 0 => out' = <<ERR_UNKNOWN>>
            /\ c # 10 =>
                /\ out' = <<>> /\ nvm_er' = {} /\ nvm_wp' = <<>>
                /\ UNCHANGED LineState
            /\ c = 13 => UNCHANGED <<cmd_index, cmd_buffer>>
            /\ c \notin {10, 13} =>
                IF cmd_index < CMD_BUF_SIZE - 1
                THEN /\ cmd_index' = cmd_index + 1
                     /\ cmd_buffer' = SubSeq(cmd_buffer, 1, cmd_index) \o <<c, 0>>
                ELSE cmd_index' = 0 /\ cmd_buffer' = NUL]_vars

\* the empty line has been answered ERR UNKNOWN
C31_Witness_EmptyLine ==
    /\ Dispatched /\ last.line = <<>>
    /\ out = <<ERR_UNKNOWN>>

\* C31 as stated: every character other than LF and CR is appended to the
\* command buffer and changes nothing else.
C31_EveryCharacterAppended ==
    [][(TakeByte /\ parser_state = "WAIT_CMD" /\ Head(rx) \notin {10, 13}) =>
        /\ out' = <<>>
        /\ UNCHANGED LineState
        /\ cmd_index' = cmd_index + 1
        /\ cmd_buffer' = SubSeq(cmd_buffer, 1, cmd_index) \o <<Head(rx), 0>>]_vars

\* the flash_write calls of the call of protocol_process_char that takes payload
\* byte number k of a block: one of FLASH_PAGE_SIZE bytes when the accumulator
\* is full, one of k mod FLASH_PAGE_SIZE bytes at the last byte otherwise, at
\* write_addr, which then advances by as much; page_index stays below
\* FLASH_PAGE_SIZE
PageCallsOf(k) ==
    /\ page_index' < FLASH_PAGE_SIZE
    /\ Len(nvm_wp') = (IF k % FLASH_PAGE_SIZE = 0 \/ Ule(write_length, k) THEN 1 ELSE 0)
    /\ Len(nvm_wp') = 1 =>
        /\ nvm_wp'[1].addr = write_addr
        /\ nvm_wp'[1].n = (IF k % FLASH_PAGE_SIZE = 0 THEN FLASH_PAGE_SIZE ELSE k % FLASH_PAGE_SIZE)
        /\ write_addr' = Add32(write_addr, nvm_wp'[1].n)
    /\ Len(nvm_wp') = 0 => write_addr' = write_addr

\* the call before the one at write_addr, if the block had one, was at a lower
\* address
AboveLastCall ==
    write_received >= FLASH_PAGE_SIZE => Ult(Add32(write_addr, Neg32(FLASH_PAGE_SIZE)), write_addr)

\* the address the block began at: write_addr less the bytes programmed so far
BlockStart == Add32(write_addr, Neg32(write_received - page_index))

\* In a block that does not pass the end of the address space the calls are
\* as C32 says.
PagesAscendUnlessWrapped ==
    [][(TakeByte /\ parser_state = "WRITE_DATA" /\ write_length # 0) =>
        /\ PageCallsOf(write_received + 1)
        /\ (Len(nvm_wp') = 1 /\ Carry32(BlockStart, write_length) = 0) => AboveLastCall]_vars

\* C32: within a write transaction with len >= 1 the flash_write calls are at
\* strictly ascending addresses addr, addr + PAGE, ..: one of PAGE bytes each
\* time the accumulator is full and one of len mod PAGE bytes at the end if
\* that is not zero; page_index < PAGE after every byte.
C32_PagesAscending ==
    [][(TakeByte /\ parser_state = "WRITE_DATA" /\ write_length # 0) =>
        /\ PageCallsOf(write_received + 1)
        /\ Len(nvm_wp') = 1 => AboveLastCall]_vars

\* C33: the erase of ERASE APP includes the row of the marker word at
\* APP_START_ADDRESS - 4, so that after ERASE APP the marker reads 0xFFFFFFFF.
C33_EraseAppClearsMarker ==
    (Dispatched /\ last.line = ERASE_APP) =>
        /\ AlignDown(MarkerAddr, FLASH_ROW_SIZE) \in nvm_er
        /\ ReadWord(flash, MarkerAddr) = -1

CDC_TX_BUFFER_SIZE == 256
CDC_TX_BUFFER_MASK == CDC_TX_BUFFER_SIZE - 1
MaxTxBytes == 288      \* bytes passed to usb_cdc_write in a run
MaxTxHanded == 320     \* bytes after which the host takes no more packets

\* (uint16_t)(cdc_tx_head - cdc_tx_tail)
usb_ring_tx_count(u) == (u.cdc_tx_head - u.cdc_tx_tail) % 65536

\* (uint16_t)(CDC_TX_BUFFER_SIZE - usb_ring_tx_count())
usb_ring_tx_space(u) == (CDC_TX_BUFFER_SIZE - usb_ring_tx_count(u)) % 65536

usb_cdc_try_send(u) ==
    IF ~u.configured \/ u.cdc_tx_busy THEN u
    ELSE IF usb_ring_tx_count(u) = 0 THEN u
    ELSE LET packet == Min(usb_ring_tx_count(u), CDC_DATA_EP_SIZE)
             cells  == [i \in 1..packet |->
                           u.cdc_tx_buffer[(u.cdc_tx_tail + i - 1) % (CDC_TX_BUFFER_MASK + 1)]]
         IN  [u EXCEPT !.cdc_in_buffer = cells,
                       !.cdc_tx_tail = ((@ + packet) % 65536) % (CDC_TX_BUFFER_MASK + 1),
                       !.cdc_tx_busy = TRUE,
                       !.handed = @ \o [i \in 1..packet |-> cells[i].id]]

usb_handle_in_endpoint(u) ==
    IF ~u.configured THEN u
    ELSE usb_cdc_try_send(IF u.in_trcpt1
                          THEN [u EXCEPT !.in_trcpt1 = FALSE, !.cdc_tx_busy = FALSE]
                          ELSE u)

\* usb_task: usb_handle_interrupts, whose last call is usb_handle_in_endpoint
usb_task(u) == usb_handle_in_endpoint(usb_handle_interrupts(u))

\* one turn of the loop of usb_cdc_write over data: the wait for space, or
\* the store of data[i] at cdc_tx_head
TxLoopTurn(u) ==
    IF usb_ring_tx_space(u) = 0 THEN usb_task(u)
    ELSE LET old == u.cdc_tx_buffer[u.cdc_tx_head]
         IN  [u EXCEPT !.cdc_tx_buffer[u.cdc_tx_head] =
                           [id |-> u.passed - Len(u.data) + 1, b |-> Head(u.data)],
                       !.cdc_tx_head = (@ + 1) % (CDC_TX_BUFFER_MASK + 1),
                       !.data = Tail(@),
                       !.overwritten =
                           IF old.id # 0 /\ \A k \in 1..Len(u.handed) : u.handed[k] # old.id
                           THEN @ \cup {old.id} ELSE @]

\* the device after SET_CONFIGURATION, nothing sent yet
UsbTxRam0 ==
    [f \in DOMAIN UsbRam0 \cup {"cdc_tx_buffer", "cdc_tx_head", "cdc_tx_tail", "cdc_tx_busy",
                                "cdc_in_buffer", "in_trcpt1", "at", "data", "passed",
                                "handed", "overwritten"} |->
        CASE f = "cdc_tx_buffer" -> [i \in 0..CDC_TX_BUFFER_MASK |-> [id |-> 0, b |-> 0]]
          [] f \in {"cdc_tx_head", "cdc_tx_tail", "passed"} -> 0
          [] f \in {"cdc_tx_busy", "in_trcpt1"} -> FALSE
          [] f \in {"cdc_in_buffer", "data", "handed"} -> <<>>
          [] f = "at" -> "usb_task"
          [] f = "overwritten" -> {}
          [] f = "configured" -> TRUE
          [] f = "configuration" -> 1
          [] OTHER -> UsbRam0[f]]

TxReplies == {ERR_UNKNOWN}

InitTx ==
    /\ pc = "loader"
    /\ parser_state = "WAIT_CMD"
    /\ cmd_index = 0
    /\ cmd_buffer = NUL
    /\ write_addr = 0
    /\ write_length = 0
    /\ write_expected_crc = 0
    /\ write_received = 0
    /\ crc_accum = -1
    /\ page_index = 0
    /\ page_buffer = <<>>
    /\ sha_ctx = [iv |-> TRUE, msg |-> <<>>]
    /\ flash = ErasedFlash
    /\ rx = <<>>
    /\ usb = UsbTxRam0
    /\ script = NoScript
    /\ out = <<>>
    /\ nvm_er = {}
    /\ nvm_wp = <<>>
    /\ calls = <<>>
    /\ last = [kind |-> "reset", c |-> 0, line |-> <<>>]
    /\ wire_line = <<>>
    /\ block_payload = <<>>
    /\ block_length = 0
    /\ typed = <<>>
    /\ pat = <<>>
    /\ sends = 0

TxFrame ==
    UNCHANGED <<pc, ram, flash, rx, script, effects, wire_line, block_payload, block_length,
                host>>

\* main: usb_task()
TxTask ==
    /\ usb.at = "usb_task"
    /\ usb' = [usb_task(usb) EXCEPT !.at = "usb_cdc_getchar"]
    /\ TxFrame

\* main: no character, or a character that is not answered
TxNoReply ==
    /\ usb.at = "usb_cdc_getchar"
    /\ usb' = [usb EXCEPT !.at = "usb_task"]
    /\ TxFrame

\* send_str(s): usb_cdc_write(s, strlen(s)) is entered
TxCall ==
    /\ usb.at = "usb_cdc_getchar"
    /\ \E s \in TxReplies :
        /\ usb.passed + Len(s) <= MaxTxBytes
        /\ usb' = [usb EXCEPT !.at = "usb_cdc_write", !.data = s, !.passed = @ + Len(s)]
    /\ TxFrame

TxByte ==
    /\ usb.at = "usb_cdc_write"
    /\ usb.data # <<>>
    /\ usb' = TxLoopTurn(usb)
    /\ TxFrame

\* after the loop: usb_cdc_try_send(), and back to main
TxEnd ==
    /\ usb.at = "usb_cdc_write"
    /\ usb.data = <<>>
    /\ usb' = [usb_cdc_try_send(usb) EXCEPT !.at = "usb_task"]
    /\ TxFrame

\* the host takes the packet of the IN endpoint: TRCPT1 is raised
TxHostIn ==
    /\ usb.cdc_tx_busy
    /\ ~usb.in_trcpt1
    /\ Len(usb.handed) < MaxTxHanded
    /\ usb' = [usb EXCEPT !.in_trcpt1 = TRUE]
    /\ TxFrame

NextTx ==
    \/ TxTask
    \/ TxNoReply
    \/ TxCall
    \/ TxByte
    \/ TxEnd
    \/ TxHostIn

SpecTx == InitTx /\ [][NextTx]_vars

\* the bytes stored in the ring and not yet copied to cdc_in_buffer
TxUnsent ==
    (1..(usb.passed - Len(usb.data))) \ {usb.handed[k] : k \in 1..Len(usb.handed)}

\* C35: usb_cdc_write overwrites no byte of the TX ring that has not been
\* copied to the IN endpoint, and with CDC_TX_BUFFER_SIZE unsent bytes in the
\* ring usb_ring_tx_space() is 0, so that the loop waits in usb_task.
C35_NoUnsentByteOverwritten ==
    /\ usb.overwritten = {}
    /\ Cardinality(TxUnsent) = CDC_TX_BUFFER_SIZE => usb_ring_tx_space(usb) = 0

\* C36: the bytes handed to the IN endpoint, packet after packet, are the
\* first bytes passed to usb_cdc_write, each once and in order.
C36_HandedIsPrefixOfWritten ==
    \A k \in 1..Len(usb.handed) : usb.handed[k] = k

\* C37: after crypto_sha256_init and any sequence of crypto_sha256_update
\* calls, buffer_len is below 64, total_len is the sum of the lengths given
\* to the calls, and buffer_len is total_len modulo 64.
C37_BufferLenAndTotalLen ==
    pc = "sha256" =>
        /\ sha_ctx.buffer_len < 64
        /\ sha_ctx.total_len = Len(block_payload)
        /\ sha_ctx.buffer_len = sha_ctx.total_len % 64

\* 128 bytes have been given in several calls, the last of them filling the
\* buffer from 63 bytes to 64
C37_Witness_BufferFilled ==
    /\ pc = "sha256"
    /\ calls = <<"crypto_sha256_update">>
    /\ block_length = 1
    /\ sha_ctx.total_len = 128
    /\ sha_ctx.buffer_len = 0
    /\ Len(sha_ctx.h.blocks) = 2

\* the encoding of the base point in RFC 8032 5.1: y = 4/5, sign bit 0
Rfc8032Basepoint == <<88>> \o [i \in 1..31 |-> 102]

\* C38: the 32 bytes from which crypto_ed25519_verify decodes the generator B,
\* ED25519_BASEPOINT, are the canonical encoding of the Ed25519 base point:
\* 0x58 followed by 31 bytes 0x66.
C38_BasepointIsCanonicalEncoding ==
    pc \in {"crypto_ed25519_verify", "returned"} =>
        \A i \in 1..32 : ED25519_BASEPOINT[i] = Rfc8032Basepoint[i]


(***************************************************************************)
(* fe51_pow22523 call by call.  typed is the 32-byte encoding of z; sha_ctx *)
(* holds the registers z, t0, t1, t2 and r (regs), the number of calls of  *)
(* Pow22523Calls made (done) and, for each register, the exponent e with   *)
(* register = z^e that the calls made so far give it (exps): fe51_sq       *)
(* doubles the exponent of its source, fe51_mul adds those of its factors. *)
(* Exponents are numbers below 2^273 in 21 digits of 13 bits, lowest       *)
(* first.                                                                  *)
(***************************************************************************)
ExpDigits == 21

ExpOf(n) == [i \in 1..ExpDigits |-> IF i = 1 THEN n ELSE 0]

ExpAdd(a0, b0) ==
    CHOOSE r \in {Carried([i \in 1..ExpDigits |-> a[i] + b[i]], 1, 0) : a \in {a0}, b \in {b0}} : TRUE

\* a * 2^n
RECURSIVE ExpShl(_, _)
ExpShl(a, n) ==
    IF n = 0 THEN a
    ELSE CHOOSE r \in {ExpShl(h, n - Min(n, 13)) :
                        h \in {Carried([i \in 1..ExpDigits |-> a[i] * 2 ^ Min(n, 13)], 1, 0)}} : TRUE

\* the exponents of the registers after one call of the list
ExpCall(exps0, call) ==
    CHOOSE r \in {[exps EXCEPT ![call[2]] = IF call[1] = "sq" THEN ExpShl(exps[call[3]], call[4])
                                             ELSE ExpAdd(exps[call[3]], exps[call[4]])] :
                    exps \in {exps0}} : TRUE

\* 2^252 - 3 = (p - 5) / 8
Exp22523 ==
    [i \in 1..ExpDigits |-> IF i = 1 THEN 8189 ELSE IF i = 20 THEN 31 ELSE IF i = 21 THEN 0 ELSE 8191]

\* the encodings of 0, 1, 2, 3, p - 1, and the y coordinates of the two keys
PowInputs ==
    {[i \in 1..32 |-> IF i = 1 THEN n ELSE 0] : n \in 0..3}
        \cup {[i \in 1..32 |-> IF i = 1 THEN 236 ELSE IF i = 32 THEN 127 ELSE 255]}
        \cup {[k EXCEPT ![32] = @ % 128] : k \in {ZK_PUBKEY, Rfc8032Test1Key}}

InitPow ==
    /\ pc = "fe51_pow22523"
    /\ parser_state = "WAIT_CMD"
    /\ cmd_index = 0
    /\ cmd_buffer = NUL
    /\ write_addr = 0
    /\ write_length = 0
    /\ write_expected_crc = 0
    /\ write_received = 0
    /\ crc_accum = -1
    /\ page_index = 0
    /\ page_buffer = <<>>
    /\ typed \in PowInputs
    /\ sha_ctx = [regs |-> [i \in 1..5 |-> fe51_frombytes(typed)],
                  exps |-> [i \in 1..5 |-> ExpOf(IF i = 1 THEN 1 ELSE 0)],
                  done |-> 0]
    /\ flash = ErasedFlash
    /\ rx = <<>>
    /\ usb = UsbRam0
    /\ script = NoScript
    /\ out = <<>>
    /\ nvm_er = {}
    /\ nvm_wp = <<>>
    /\ calls = <<>>
    /\ last = [kind |-> "reset", c |-> 0, line |-> <<>>]
    /\ wire_line = <<>>
    /\ block_payload = <<>>
    /\ block_length = 0
    /\ pat = <<>>
    /\ sends = 0

PowFrame ==
    UNCHANGED <<parser_state, cmd_index, cmd_buffer, write_addr, write_length,
                write_expected_crc, write_received, crc_accum, page_index, page_buffer,
                flash, rx, usbv, out, nvm_er, nvm_wp, calls, wire_line, block_payload,
                block_length, host, last>>

\* the next fe51_sq (with its repetitions) or fe51_mul of fe51_pow22523
PowCall ==
    /\ pc = "fe51_pow22523"
    /\ sha_ctx.done < Len(Pow22523Calls)
    /\ \E call \in {Pow22523Calls[sha_ctx.done + 1]} :
           sha_ctx' = [regs |-> FeCall(sha_ctx.regs, call),
                       exps |-> ExpCall(sha_ctx.exps, call),
                       done |-> sha_ctx.done + 1]
    /\ pc' = pc
    /\ PowFrame

PowReturn ==
    /\ pc = "fe51_pow22523"
    /\ sha_ctx.done = Len(Pow22523Calls)
    /\ pc' = "returned"
    /\ sha_ctx' = sha_ctx
    /\ PowFrame

NextPow == PowCall \/ PowReturn

SpecPow == InitPow /\ [][NextPow]_vars

\* before the last call t1 is z^(2^252 - 4) and t0, since the 17th call, is
\* z^(2^200 - 2^100)
PowBeforeLastCall ==
    sha_ctx.done = Len(Pow22523Calls) - 1 =>
        /\ ExpAdd(sha_ctx.exps[3], ExpOf(1)) = Exp22523
        /\ ExpAdd(sha_ctx.exps[2], ExpShl(ExpOf(1), 100)) = ExpShl(ExpOf(1), 200)

\* C39: fe51_pow22523 raises z to (p - 5)/8: the exponent its squarings and
\* multiplications give r is 2^252 - 3, for every z, r being the value
\* fe51_pow22523 returns.
C39_ExponentIs22523 ==
    pc = "returned" =>
        /\ sha_ctx.exps[5] = Exp22523
        /\ sha_ctx.regs[5] = fe51_pow22523(fe51_frombytes(typed))


(***************************************************************************)
(* fe51_reduce over limbs at the edges of the range: pat holds the five    *)
(* limbs given, sha_ctx the limbs left.  The value of five limbs is        *)
(* v[0] + 2^51 v[1] + .. + 2^204 v[4], a number of 21 digits.              *)
(***************************************************************************)
\* 0, 2^51 - 1, 2^51 and 2^63 - 1 in uint64_t
ReduceLimbs ==
    {<<0, 0, 0, 0, 0>>, <<8191, 8191, 8191, 4095, 0>>, <<0, 0, 0, 4096, 0>>,
     <<8191, 8191, 8191, 8191, 2047>>}

ReduceInputs == {<<a, b, c, d, e>> : a \in ReduceLimbs, b \in ReduceLimbs, c \in ReduceLimbs,
                                     d \in ReduceLimbs, e \in ReduceLimbs}

\* the value of the limbs
FeValue(v) ==
    LET Wide(x) == [k \in 1..ExpDigits |-> IF k <= 5 THEN x[k] ELSE 0]
    IN  ExpAdd(ExpAdd(ExpAdd(ExpAdd(Wide(v[1]), ExpShl(Wide(v[2]), 51)),
                             ExpShl(Wide(v[3]), 102)), ExpShl(Wide(v[4]), 153)),
               ExpShl(Wide(v[5]), 204))

\* x with the bits from 255 on taken off and added 19 times
FoldP(x) ==
    Carried([k \in 1..ExpDigits |->
                IF k = 1 THEN x[1] + 19 * ((x[20] \div 256) + 32 * x[21])
                ELSE IF k = 20 THEN x[20] % 256
                ELSE IF k = 21 THEN 0 ELSE x[k]], 1, 0)

\* x modulo 2^255 - 19, for x below 2^273
ModP(x0) ==
    CHOOSE r \in {IF FoldP(ExpAdd(y, ExpOf(19))) = ExpAdd(y, ExpOf(19)) THEN y
                  ELSE FoldP(ExpAdd(y, ExpOf(19))) : y \in {FoldP(FoldP(x0))}} : TRUE

InitReduce ==
    /\ pc = "fe51_reduce"
    /\ parser_state = "WAIT_CMD"
    /\ cmd_index = 0
    /\ cmd_buffer = NUL
    /\ write_addr = 0
    /\ write_length = 0
    /\ write_expected_crc = 0
    /\ write_received = 0
    /\ crc_accum = -1
    /\ page_index = 0
    /\ page_buffer = <<>>
    /\ pat \in ReduceInputs
    /\ sha_ctx = pat
    /\ flash = ErasedFlash
    /\ rx = <<>>
    /\ usb = UsbRam0
    /\ script = NoScript
    /\ out = <<>>
    /\ nvm_er = {}
    /\ nvm_wp = <<>>
    /\ calls = <<>>
    /\ last = [kind |-> "reset", c |-> 0, line |-> <<>>]
    /\ wire_line = <<>>
    /\ block_payload = <<>>
    /\ block_length = 0
    /\ typed = <<>>
    /\ sends = 0

\* fe51_reduce(r)
ReduceCall ==
    /\ pc = "fe51_reduce"
    /\ sha_ctx' = fe51_reduce(sha_ctx)
    /\ pc' = "returned"
    /\ UNCHANGED <<parser_state, cmd_index, cmd_buffer, write_addr, write_length,
                   write_expected_crc, write_received, crc_accum, page_index, page_buffer,
                   flash, rx, usbv, effects, wire_line, block_payload, block_length, host>>

NextReduce == ReduceCall

SpecReduce == InitReduce /\ [][NextReduce]_vars

\* every limb left is below 2^51
ReduceLeavesLimbsBelow51 ==
    pc = "returned" => \A i \in 1..5 : sha_ctx[i][4] < 4096 /\ sha_ctx[i][5] = 0

\* fe51_reduce up to its last statement, v[1] &= FE51_MASK
ReduceBeforeMask(r) ==
    CarryLimb(CarryLimb(CarryLimb(CarryLimb(CarryLimb(CarryLimb(r, 1, 2, 1),
              2, 3, 1), 3, 4, 1), 4, 5, 1), 5, 1, 19), 1, 2, 1)

\* the value is kept whenever the last statement has no bit to clear
ReduceKeepsValueUnlessMasked ==
    pc = "returned" =>
        \E v \in {ReduceBeforeMask(pat)} :
            (v[2][4] < 4096 /\ v[2][5] = 0) => ModP(FeValue(sha_ctx)) = ModP(FeValue(pat))

\* C40: for limbs below 2^63, fe51_reduce leaves limbs below 2^51 whose value
\* is congruent modulo 2^255 - 19 to the value of the limbs given: no carry
\* is lost.
C40_ReduceKeepsValue ==
    pc = "returned" =>
        /\ \A i \in 1..5 : sha_ctx[i][4] < 4096 /\ sha_ctx[i][5] = 0
        /\ ModP(FeValue(sha_ctx)) = ModP(FeValue(pat))

=============================================================================
